---- MODULE Spec2Model ----
(***************************************************************************)
(* Model of the Hoiax water-heater device drivers.                         *)
(*                                                                         *)
(*   src/unnamed/part_000                      the current device class    *)
(*   src/drivers/hiax-connected-200/device.js  the Connected 200 class     *)
(*                                                                         *)
(* Both classes are JavaScript async code on a single event loop: a        *)
(* handler runs atomically from one await to the next.  Every action below *)
(* is one such run: the continuation of an awaited network call, of a      *)
(* sleep, or of a timer, up to the next await of the same handler.         *)
(***************************************************************************)
EXTENDS Integers, Sequences, FiniteSets, TLC

(***************************************************************************)
(* Bounds of the model.                                                    *)
(***************************************************************************)
MaxCalls == 2      \* retry-wrapped writes that can be in flight together
MaxTicks == 1      \* timer-started updateState runs in flight together
MaxFail == 2       \* failures the network injects in one behaviour
MaxCmds == 1       \* user commands issued in one behaviour
MaxPolls == 1      \* firings of the periodic timer in one behaviour
MaxExt == 1        \* out-of-band changes of requested_power in one behaviour
MaxMissing == 1    \* requested ids a single init response may lack
MaxFlaky == 2      \* ids (the last of keyMap) that responses may lack at all
MaxInits == 2      \* initializations of one device in one behaviour

(***************************************************************************)
(* Program constants.                                                      *)
(***************************************************************************)
PART000 == "part_000"
C200 == "connected200"
Variants == {PART000, C200}

\* keyMap / key_map: the controller ids behind the settings
keyMap ==
  [ambient_temperature |-> 100, inlet_temperature |-> 101, max_water_flow |-> 512,
   regulation_diff |-> 516, legionella_frequency |-> 511, controling_device |-> 500,
   nordpool_price_region |-> 544, num_expensive_hours |-> 545, min_remain_heat |-> 546,
   num_cheap_hours |-> 547, temp_inc_cheap_hours |-> 548, TankVolume |-> 526,
   SerialNo |-> 518, HeaterNomPower |-> 503, HeaterNomPower2 |-> 504]

key_map ==
  [ambient_temperature |-> 100, inlet_temperature |-> 101, max_water_flow |-> 512,
   regulation_diff |-> 516, legionella_frequency |-> 511, controling_device |-> 500,
   TankVolume |-> 526, SerialNo |-> 518, HeaterNomPower |-> 503, HeaterNomPower2 |-> 504]

ObjectValues(m) == {m[k] : k \in DOMAIN m}

AllIds == ObjectValues(keyMap)

\* Object.values(keyMap) in the order of the literal; the ids that a response
\* of the cloud may lack are the last MaxFlaky of them
KeyOrder == <<100, 101, 512, 516, 511, 500, 544, 545, 546, 547, 548, 526, 518, 503, 504>>
FlakyIds == {KeyOrder[i] : i \in (Len(KeyOrder) - MaxFlaky + 1)..Len(KeyOrder)}

\* statesLeft as onOAuth2Init first passes it to initializeInternalStates
InitialStatesLeft(v, broken) ==
  IF v = C200 THEN ObjectValues(key_map)
  ELSE IF broken THEN {id \in ObjectValues(keyMap) : id < 544 \/ id > 548}
  ELSE ObjectValues(keyMap)

\* The retry-wrapped writes
HEATER == "setHeaterState"
AMBIENT == "setAmbientTemp"
SETTINGS == "onSettings"
SETPOINT == "target_temperature"
WriteKinds == {HEATER, AMBIENT, SETTINGS, SETPOINT}

CallIds == 1..MaxCalls
TickIds == 0..MaxTicks     \* 0 is the updateState that initialization awaits

VARIABLES
  variant,            \* which of the two device classes runs
  available,          \* setAvailable() / setUnavailable()
  is_on, max_power,   \* this.is_on, this.max_power
  intervalID,         \* this.intervalID is defined
  initializeID,       \* this.initializeID is defined
  intervalTimer,      \* the setInterval timer: "off", "armed", "stale"
  initTimer,          \* the setTimeout timer:  "off", "armed", "stale"
  fullListReported,   \* this.fullListReported
  brokenSpotPrice,    \* this.brokenSpotPrice
  listeners,          \* the capability and flow listeners are registered
  statesLeft,         \* initializeInternalStates' argument
  initPc,             \* where initialization stands
  fetched,            \* fetchedStates while toSettings is awaited
  resolved,           \* id -> times it was stored and removed from statesLeft
  deleted,            \* onOAuth2Deleted has run
  ticks,              \* the updateState runs
  calls,              \* the retry-wrapped writes
  dev517,             \* requested_power as the device holds it
  events,             \* triggerMaxPowerChanged calls so far
  failBudget, cmdBudget, pollBudget, extBudget,
  \* history
  ackRun,             \* the acknowledged setHeaterState calls of one level in a row
  userLevel,          \* history: the level of the last acknowledged user command that
                      \* left the heater on; 0 with none, or once 517 was changed elsewhere
  partialRounds,      \* init rounds that ended with ids unresolved
  staleTimerFired,    \* a timer armed before the deletion fired after it
  mutatedAfterDelete, wroteAfterDelete, timerSetAfterDelete,
  \* the leakage estimator
  deviceType,         \* this.deviceType (part_000)
  leakageConstant,    \* this.leakageConstant, mW/K
  accumulatedLeakage, \* this.accumulatedLeakage, dW min
  currentLeakage,     \* this.currentLeakage (device.js), dW
  prevAccumTime,      \* this.prevAccumTime, minutes
  outsideTemp,        \* this.outsideTemp, 1/100 degree
  tankVolume,         \* this.tankVolume, litres
  prevPower, prevTemp, prevStored, prevTime,   \* device.js: the previous reading
  pastLeakage,        \* device.js: the sample window, newest first
  prevRelationTime, prevRelationUse, prevRelationLeak,   \* part_000: the baseline
  store,              \* the persistent store's leakage keys
  now,                \* the clock of new Date(), minutes
  leakBudget,         \* logLeakage calls left in this behaviour
  numericOnly,        \* every logLeakage call so far was given three numbers
  lastCall,           \* what the last logLeakage call was given and did
  published,          \* point id -> the capability value updateState set last
  answer,             \* point id -> its entry in the last answer to a poll
  \* the heater mode and the settings
  heater_mode,        \* point 500 as the device holds it
  isFirstTime,        \* the persistent store's key isFirstTime: "null" or "false"
  controling_device,  \* the local setting controling_device
  keyChange,          \* what the onSettings in flight writes
  inits,              \* initializations of this device so far
  modeWriteBy,        \* history: the initializations that wrote id 500
  \* the hardware
  tankSize,           \* point 526 (TankVolume) as the device reports it, litres
  maxPowerCapability, \* the max power capability the device has in Homey
  HeaterNomPower,     \* this.HeaterNomPower (part_000), W; 0 is undefined
  HeaterNomPower2     \* this.HeaterNomPower2 (part_000), W; 0 is undefined

lifeVars ==
  <<variant, available, is_on, max_power, intervalID, initializeID, intervalTimer,
    initTimer, fullListReported, brokenSpotPrice, listeners, statesLeft, initPc,
    fetched, resolved, deleted, ticks, calls, dev517, events,
    failBudget, cmdBudget, pollBudget, extBudget, ackRun, userLevel, partialRounds,
    staleTimerFired, mutatedAfterDelete, wroteAfterDelete, timerSetAfterDelete>>

estimatorVars ==
  <<leakageConstant, accumulatedLeakage, currentLeakage, prevAccumTime, outsideTemp,
    tankVolume, prevPower, prevTemp, prevStored, prevTime, pastLeakage,
    prevRelationTime, prevRelationUse, prevRelationLeak>>

pollVars == <<published, answer>>

readingVars ==
  <<deviceType, estimatorVars, store, now, leakBudget, numericOnly, lastCall, pollVars>>

modeVars == <<heater_mode, isFirstTime, controling_device, keyChange, inits, modeWriteBy>>

configVars == <<tankSize, maxPowerCapability, HeaterNomPower, HeaterNomPower2>>

dataVars == <<readingVars, modeVars, configVars>>

vars == <<lifeVars, dataVars>>

timerVars == <<intervalID, initializeID, intervalTimer, initTimer>>
initVars == <<fullListReported, statesLeft, initPc, fetched, resolved, partialRounds>>
heaterVars == <<is_on, max_power, dev517, events, ackRun, userLevel>>
constVars == <<variant, brokenSpotPrice>>
budgetVars == <<failBudget, cmdBudget, pollBudget, extBudget>>
deleteVars == <<mutatedAfterDelete, wroteAfterDelete, timerSetAfterDelete>>

IdleCall ==
  [pc |-> "idle", kind |-> "none", origin |-> "none", turnOn |-> FALSE, newPower |-> 0,
   nFail |-> 0, nUnavail |-> 0, sawChange |-> FALSE]
IdleTick == [pc |-> "idle", nFail |-> 0, nUnavail |-> 0]
StartedTick == [pc |-> "fetch", nFail |-> 0, nUnavail |-> 0]
NoRun == [level |-> 0, n |-> 0, emitted |-> 0, fromOther |-> FALSE, watt |-> 0]

(***************************************************************************)
(* setHeaterState: the value written to 517 and the edge test.             *)
(***************************************************************************)
power(turnOn, newPower) == IF turnOn THEN newPower ELSE 0

\* a token that is the sum of both powers at every level
newPowerWattSum(v, newPower, nom, nom2) == IF v = C200 THEN 2000 ELSE nom + nom2
\* the max_power token of the event: device.js has the powers of the Connected
\* 200 in its code, part_000 takes this.HeaterNomPower and this.HeaterNomPower2
newPowerWatt(v, newPower, nom, nom2) ==
  IF v = C200
  THEN (IF newPower = 1 THEN 700 ELSE IF newPower = 2 THEN 1300 ELSE 2000)
  ELSE (IF newPower = 1 THEN nom ELSE IF newPower = 2 THEN nom2 ELSE nom + nom2)

\* the trigger fires when the level differs from the cached one
EmitsAlways(newPower, cached) == TRUE
Emits(newPower, cached) == newPower # cached

(***************************************************************************)
(* History flags of what happens once the device is deleted.               *)
(***************************************************************************)
AfterDelete(mut, wrote, timer) ==
  /\ mutatedAfterDelete' = (mutatedAfterDelete \/ (deleted /\ mut))
  /\ wroteAfterDelete' = (wroteAfterDelete \/ (deleted /\ wrote))
  /\ timerSetAfterDelete' = (timerSetAfterDelete \/ (deleted /\ timer))

FreeCall(c) == calls[c].pc = "idle" /\ \A d \in CallIds : d < c => calls[d].pc # "idle"

NewCall(kind, origin, turnOn, newPower) ==
  [pc |-> "write", kind |-> kind, origin |-> origin, turnOn |-> turnOn,
   newPower |-> newPower, nFail |-> 0, nUnavail |-> 0, sawChange |-> FALSE]

\* the setHeaterState call of case 517; sawChange is history: the level read
\* was another one than the cached level
PollCall(turnOn, newPower, sawChange) ==
  [NewCall(HEATER, "poll", turnOn, newPower) EXCEPT !.sawChange = sawChange]

(***************************************************************************)
(* The leakage estimator: JavaScript values and numbers.                   *)
(* A value read from the cloud is a number, NaN, undefined, null or a      *)
(* string that is no number.  Numbers are kept in fixed point, NaN and the *)
(* two infinities are values of their own.                                 *)
(*   temperature   1/100 degree        energy read   1/100 kWh             *)
(*   time          minutes             leakageConstant  mW/K               *)
(*   currentLeakage  dW                accumulatedLeakage  dW min          *)
(***************************************************************************)
Val(v) == [t |-> "number", v |-> v]
Undefined == [t |-> "undefined", v |-> 0]
Null == [t |-> "null", v |-> 0]
NaNValue == [t |-> "NaN", v |-> 0]
Text == [t |-> "string", v |-> 0]       \* a string such as "n/a"

Num(v) == [k |-> "num", v |-> v]
NaN == [k |-> "nan", v |-> 0]
Inf(s) == [k |-> "inf", v |-> s]        \* s is 1 or -1

\* +x: null converts to 0, undefined and a string that is no number to NaN
ToNumber(x) ==
  IF x.t = "number" THEN Num(x.v)
  ELSE IF x.t = "null" THEN Num(0)
  ELSE NaN

\* isNaN(x), Number.isNaN(+x)
isNaN(x) == ToNumber(x).k = "nan"
\* x == undefined
LooseUndefined(x) == x.t \in {"undefined", "null"}

Sign(n) == IF n > 0 THEN 1 ELSE IF n < 0 THEN -1 ELSE 0
Abs(n) == IF n < 0 THEN -n ELSE n
\* the quotient a / b of two numbers, b # 0, cut to the fixed point
TDiv(a, b) == Sign(a) * Sign(b) * (Abs(a) \div Abs(b))

XAdd(a, b) ==
  IF a.k = "nan" \/ b.k = "nan" THEN NaN
  ELSE IF a.k = "inf" /\ b.k = "inf" THEN (IF a.v = b.v THEN a ELSE NaN)
  ELSE IF a.k = "inf" THEN a
  ELSE IF b.k = "inf" THEN b
  ELSE Num(a.v + b.v)

\* a * n and a / n for a finite n
XMul(a, n) ==
  IF a.k = "nan" THEN NaN
  ELSE IF a.k = "inf" THEN (IF n = 0 THEN NaN ELSE Inf(a.v * Sign(n)))
  ELSE Num(a.v * n)

XDiv(a, n) ==
  IF a.k = "nan" THEN NaN
  ELSE IF a.k = "inf" THEN Inf(a.v * Sign(n))
  ELSE Num(TDiv(a.v, n))

\* a >= b and a > 0 as JavaScript compares: false when NaN takes part
XGeq(a, b) ==
  /\ a.k # "nan" /\ b.k # "nan"
  /\ IF a.k = "inf" THEN a.v = 1 \/ b = a
     ELSE IF b.k = "inf" THEN b.v = -1
     ELSE a.v >= b.v

XPositive(a) == (a.k = "inf" /\ a.v = 1) \/ (a.k = "num" /\ a.v > 0)

\* x.toFixed(1) of a value in 1/100: the nearest 1/10
ToFixed1(x) == Sign(x) * ((Abs(x) + 5) \div 10)

(***************************************************************************)
(* The leakage estimator: constants and initial state.                     *)
(***************************************************************************)
DEVICE_TYPE_CONNECTED_200 == 1
DEVICE_TYPE_CONNECTED_300 == 2
DEVICE_TYPE_UNKNOWN == 0         \* undefined
CONNECTED_200_PROPERTIES ==
  [size |-> 187, element1_power |-> 700, element2_power |-> 1300,
   leakage_constant |-> Val(1580)]
CONNECTED_300_PROPERTIES ==
  [size |-> 283, element1_power |-> 1250, element2_power |-> 1750,
   leakage_constant |-> Undefined]
LOGITEMS == 200
DayMinutes == 24 * 60            \* 24 * 60 * 60 * 1000 ms
MinEntries == 10                 \* entries the most used temp diff must have
DefaultLeakageConstant == 12696  \* 12.696
DefaultOutsideTemp == 2400       \* 24
DefaultTankVolume == 178
WaterHeat == 4187                \* 4.187
EnergyUnit == 6000               \* 1/100 kWh in dW min

deviceProperties(type) ==
  IF type = DEVICE_TYPE_CONNECTED_300 THEN CONNECTED_300_PROPERTIES
  ELSE CONNECTED_200_PROPERTIES

\* onOAuth2Init of part_000: the constant of the model, or the Connected 200's
\* scaled by the tank size when the model has none
SeedLeakageConstant(props) ==
  IF props.leakage_constant.t = "undefined"
  THEN Num(TDiv(CONNECTED_200_PROPERTIES.leakage_constant.v * props.size,
                CONNECTED_200_PROPERTIES.size))
  ELSE Num(props.leakage_constant.v)

(***************************************************************************)
(* Initial state: the device object exists, onOAuth2Init has not run.      *)
(***************************************************************************)
LifeStart(failures) ==
  /\ variant \in Variants
  /\ available = TRUE
  /\ is_on = TRUE /\ max_power = 3
  /\ intervalID = FALSE /\ initializeID = FALSE
  /\ intervalTimer = "off" /\ initTimer = "off"
  /\ fullListReported = FALSE
  /\ brokenSpotPrice = FALSE
  /\ listeners = FALSE
  /\ statesLeft = {}
  /\ initPc = "start"
  /\ fetched = {}
  /\ resolved = [id \in AllIds |-> 0]
  /\ deleted = FALSE
  /\ ticks = [t \in TickIds |-> IdleTick]
  /\ calls = [c \in CallIds |-> IdleCall]
  /\ dev517 \in {0, 3}
  /\ events = 0
  /\ failBudget = failures /\ cmdBudget = MaxCmds
  /\ pollBudget = MaxPolls /\ extBudget = MaxExt
  /\ ackRun = NoRun
  /\ userLevel = 0
  /\ partialRounds = 0
  /\ staleTimerFired = FALSE
  /\ mutatedAfterDelete = FALSE /\ wroteAfterDelete = FALSE
  /\ timerSetAfterDelete = FALSE

LifeInit == LifeStart(MaxFail)

(***************************************************************************)
(* The heater mode (point 500) and the settings.                           *)
(***************************************************************************)
\* the modes: '8' is the external control the app needs, '6' the price
\* control, '1' stands for every other mode
ModeValues == {"1", "6", "8"}
SpotIds == 544..548
NoChange == [id |-> 0, value |-> "none"]

\* a device that was initialized once before: the store holds isFirstTime,
\* the device is in mode '8' and the settings were read from it
ModeSettled ==
  /\ heater_mode = "8"
  /\ isFirstTime = "false"
  /\ controling_device = "8"
  /\ keyChange = NoChange
  /\ inits = 1
  /\ modeWriteBy = {}

\* a device that was just paired
ModeFresh ==
  /\ heater_mode \in ModeValues
  /\ isFirstTime = "null"
  /\ controling_device = "none"
  /\ keyChange = NoChange
  /\ inits = 0
  /\ modeWriteBy = {}

\* this.isFirstTime = this.getStoreValue('isFirstTime') === null; device.js
\* keeps no such key and takes every initialization for the first
FirstTime(v, stored) == v = C200 \/ stored = "null"

\* whether onOAuth2Init writes { 500: '8' }
WritesMode(v, stored, mode) == FirstTime(v, stored) /\ mode # "8"

\* toSettings (part_000) and setSettings (device.js): the controling_device
\* that super.setSettings is given for the mode read
ToSettingsMode(v, broken, mode) ==
  IF v = PART000 /\ broken /\ mode = "6" THEN "8" ELSE mode

(***************************************************************************)
(* The hardware: the tank size the device reports and the max power        *)
(* capability it has in Homey.                                             *)
(***************************************************************************)
OtherSize == 250     \* a tank size that is neither model's
TankSizes == {CONNECTED_200_PROPERTIES.size, CONNECTED_300_PROPERTIES.size, OtherSize}
Capabilities == {"max_power", "max_power_3000", "none"}

\* a Connected 200 with the capability of its model
ConfigSettled ==
  /\ tankSize = CONNECTED_200_PROPERTIES.size
  /\ maxPowerCapability = "max_power"
  /\ HeaterNomPower = 0 /\ HeaterNomPower2 = 0

\* the tank of another size: the powers of its two elements
OtherPower == 1000
OtherPower2 == 2000

\* what the device reports in the points 503 and 504: the powers of the
\* elements of its model
Reported(size) ==
  IF size = CONNECTED_200_PROPERTIES.size THEN CONNECTED_200_PROPERTIES
  ELSE IF size = CONNECTED_300_PROPERTIES.size THEN CONNECTED_300_PROPERTIES
  ELSE [size |-> size, element1_power |-> OtherPower, element2_power |-> OtherPower2,
        leakage_constant |-> Undefined]

\* switch (parseInt(tankSize[0].value, 10))
DetectedType(size) ==
  IF size = CONNECTED_200_PROPERTIES.size THEN DEVICE_TYPE_CONNECTED_200
  ELSE IF size = CONNECTED_300_PROPERTIES.size THEN DEVICE_TYPE_CONNECTED_300
  ELSE DEVICE_TYPE_UNKNOWN

\* if (!this.deviceType): the type is detected unless the store held one
TypeAtInit(stored, size) ==
  IF stored = DEVICE_TYPE_UNKNOWN THEN DetectedType(size) ELSE stored

\* the Connected 300 fix: max_power is replaced by max_power_3000
CapabilityAtInit(capability, type) ==
  IF capability = "max_power" /\ type = DEVICE_TYPE_CONNECTED_300
  THEN "max_power_3000" ELSE capability

\* throw new Error('This device is broken, ...'): neither capability is there
DeviceBroken(v, capability) == v = PART000 /\ capability = "none"

(***************************************************************************)
(* onOAuth2Init up to its call of initializeInternalStates (part_000) or   *)
(* to its read of the settings' ids (device.js).  Whether '6' is among the *)
(* heater mode's enumerated values is what the cloud answered.  The run    *)
(* ends with a throw when the device has no max power capability, and      *)
(* stops at the write of { 500: '8' } when the mode has to be set.         *)
(***************************************************************************)
onOAuth2Init ==
  /\ initPc = "start"
  /\ inits < MaxInits
  /\ inits' = inits + 1
  /\ available' = FALSE
  /\ intervalID' = FALSE /\ initializeID' = FALSE
  /\ IF variant = PART000
     THEN /\ deviceType' = TypeAtInit(deviceType, tankSize)
          /\ maxPowerCapability' = CapabilityAtInit(maxPowerCapability, deviceType')
     ELSE UNCHANGED <<deviceType, maxPowerCapability>>
  /\ IF DeviceBroken(variant, maxPowerCapability')
     THEN /\ initPc' = "failed"
          /\ UNCHANGED <<brokenSpotPrice, statesLeft, max_power, is_on, isFirstTime,
                         modeWriteBy, leakageConstant, tankVolume, HeaterNomPower,
                         HeaterNomPower2>>
     ELSE /\ \E broken \in BOOLEAN :
               /\ variant = C200 => ~broken
               /\ brokenSpotPrice' = broken
               /\ statesLeft' = InitialStatesLeft(variant, broken)
          /\ max_power' = 3 /\ is_on' = TRUE
          /\ IF variant = PART000
             THEN /\ leakageConstant' = SeedLeakageConstant(deviceProperties(deviceType'))
                  /\ tankVolume' = deviceProperties(deviceType').size
                  /\ HeaterNomPower' = deviceProperties(deviceType').element1_power
                  /\ HeaterNomPower2' = deviceProperties(deviceType').element2_power
             ELSE UNCHANGED <<leakageConstant, tankVolume, HeaterNomPower,
                              HeaterNomPower2>>
          /\ IF WritesMode(variant, isFirstTime, heater_mode)
             THEN /\ initPc' = "modeWrite"
                  /\ modeWriteBy' = modeWriteBy \cup {inits'}
                  /\ UNCHANGED isFirstTime
             ELSE /\ initPc' = "fetch"
                  /\ isFirstTime' = IF variant = PART000 THEN "false" ELSE isFirstTime
                  /\ UNCHANGED modeWriteBy
  /\ UNCHANGED <<variant, intervalTimer, initTimer, fullListReported, listeners, fetched,
                 resolved, deleted, ticks, calls, dev517, events, budgetVars, ackRun, userLevel,
                 partialRounds, staleTimerFired, deleteVars, heater_mode,
                 controling_device, keyChange, tankSize>>
  /\ UNCHANGED <<accumulatedLeakage, currentLeakage, prevAccumTime, outsideTemp,
                 prevPower, prevTemp, prevStored, prevTime, pastLeakage,
                 prevRelationTime, prevRelationUse, prevRelationLeak, store, now,
                 leakBudget, numericOnly, lastCall, pollVars>>

\* setDevicePoint(deviceId, { 500: '8' }) throws: catch block, then the sleep
ModeWriteThrows ==
  /\ initPc = "modeWrite"
  /\ failBudget > 0
  /\ failBudget' = failBudget - 1
  /\ available' = FALSE
  /\ initPc' = "modeSleep"
  /\ AfterDelete(TRUE, FALSE, FALSE)
  /\ UNCHANGED <<constVars, heaterVars, timerVars, fullListReported, listeners,
                 statesLeft, fetched, resolved, deleted, ticks, calls, cmdBudget,
                 pollBudget, extBudget, partialRounds, staleTimerFired, dataVars>>

\* the sleep is over: the loop issues the write again
ModeWriteSleepDone ==
  /\ initPc = "modeSleep"
  /\ initPc' = "modeWrite"
  /\ AfterDelete(FALSE, TRUE, FALSE)
  /\ UNCHANGED <<constVars, available, heaterVars, timerVars, fullListReported,
                 listeners, statesLeft, fetched, resolved, deleted, ticks, calls,
                 budgetVars, partialRounds, staleTimerFired, dataVars>>

\* the write resolves with ok === false: it is issued again at once
ModeWriteNotOk ==
  /\ initPc = "modeWrite"
  /\ failBudget > 0
  /\ failBudget' = failBudget - 1
  /\ AfterDelete(FALSE, TRUE, FALSE)
  /\ UNCHANGED <<constVars, available, heaterVars, timerVars, initVars, listeners,
                 deleted, ticks, calls, cmdBudget, pollBudget, extBudget,
                 staleTimerFired, dataVars>>

\* the write resolves ok: the device is in mode '8'; part_000 then stores
\* isFirstTime = false, and onOAuth2Init goes on to read the settings' ids
ModeWriteOk ==
  /\ initPc = "modeWrite"
  /\ heater_mode' = "8"
  /\ isFirstTime' = IF variant = PART000 THEN "false" ELSE isFirstTime
  /\ max_power' = 3 /\ is_on' = TRUE
  /\ initPc' = "fetch"
  /\ AfterDelete(TRUE, FALSE, FALSE)
  /\ UNCHANGED <<constVars, available, dev517, events, ackRun, userLevel, timerVars,
                 fullListReported, listeners, statesLeft, fetched, resolved, deleted,
                 ticks, calls, budgetVars, partialRounds, staleTimerFired, readingVars,
                 controling_device, keyChange, inits, modeWriteBy,
                 configVars>>

(***************************************************************************)
(* initializeInternalStates (part_000).                                    *)
(***************************************************************************)
\* statesLeft.filter(...): the ids that toSettings did not store
StatesLeftKeepAll(left, got) == left
StatesLeftNone(left, got) == {}
StatesLeftAfter(left, got) == left \ got

\* The tail of the finally block once the diagnostic fetch is over: either the
\* retry timer is set, or updateState is awaited before the poller is started.
FinallyTail(left) ==
  IF left # {}
  THEN /\ available' = FALSE
       /\ initializeID' = TRUE
       /\ initTimer' = "armed"
       /\ initPc' = "waitTimer"
       /\ partialRounds' = partialRounds + 1
       /\ listeners' = TRUE
       /\ ticks' = ticks
       /\ AfterDelete(TRUE, FALSE, TRUE)
  ELSE /\ ticks' = [ticks EXCEPT ![0] = StartedTick]
       /\ initPc' = "firstUpdate"
       /\ UNCHANGED <<available, initializeID, initTimer, partialRounds, listeners>>
       /\ AfterDelete(FALSE, FALSE, FALSE)

FinallyDone(left) == FinallyTail({})

\* The finally block: the unfiltered fetch is awaited while ids are left and
\* fullListReported is undefined
Finally(left) ==
  IF left # {} /\ ~fullListReported
  THEN /\ initPc' = "fullList"
       /\ UNCHANGED <<available, initializeID, initTimer, partialRounds, listeners, ticks>>
       /\ AfterDelete(FALSE, FALSE, FALSE)
  ELSE FinallyTail(left)

\* the retry timer fires: the next round starts and requests statesLeft
InitTimerFire ==
  /\ initTimer # "off"
  /\ initPc = "waitTimer"
  /\ initTimer' = "off"
  /\ initializeID' = FALSE
  /\ initPc' = "fetch"
  /\ staleTimerFired' = (staleTimerFired \/ initTimer = "stale")
  /\ UNCHANGED <<constVars, available, heaterVars, intervalID, intervalTimer,
                 fullListReported, listeners, statesLeft, fetched, resolved, deleted,
                 ticks, calls, budgetVars, partialRounds, deleteVars, dataVars>>

\* getDevicePoints(deviceId, stateToFetch) throws
InitFetchThrows ==
  /\ variant = PART000
  /\ initPc = "fetch"
  /\ failBudget > 0
  /\ failBudget' = failBudget - 1
  /\ Finally(statesLeft)
  /\ UNCHANGED <<constVars, heaterVars, intervalID, intervalTimer, fullListReported,
                 statesLeft, fetched, resolved, deleted, calls, cmdBudget, pollBudget,
                 extBudget, staleTimerFired, dataVars>>

\* getDevicePoints(deviceId, stateToFetch) answers with the requested ids but
\* those in missing
InitFetchReturns ==
  /\ variant = PART000
  /\ initPc = "fetch"
  /\ \E missing \in SUBSET (statesLeft \cap FlakyIds) :
       /\ Cardinality(missing) <= MaxMissing
       /\ missing # {} => failBudget > 0
       /\ failBudget' = IF missing # {} THEN failBudget - 1 ELSE failBudget
       /\ IF statesLeft \ missing # {}
          THEN /\ fetched' = statesLeft \ missing
               /\ initPc' = "toSettings"
               /\ UNCHANGED <<available, initializeID, initTimer, partialRounds,
                              listeners, ticks, deleteVars>>
          ELSE /\ fetched' = {}
               /\ Finally(statesLeft)
       \* case 503, case 504: the powers the device reports
       /\ HeaterNomPower' = IF keyMap.HeaterNomPower \in statesLeft \ missing
                            THEN Reported(tankSize).element1_power ELSE HeaterNomPower
       /\ HeaterNomPower2' = IF keyMap.HeaterNomPower2 \in statesLeft \ missing
                             THEN Reported(tankSize).element2_power ELSE HeaterNomPower2
  /\ UNCHANGED <<constVars, heaterVars, intervalID, intervalTimer, fullListReported,
                 statesLeft, resolved, deleted, calls, cmdBudget, pollBudget, extBudget,
                 staleTimerFired, readingVars, modeVars, tankSize, maxPowerCapability>>

\* toSettings(fetchedStates) resolves: the ids are stored and leave statesLeft
InitToSettingsReturns ==
  /\ variant = PART000
  /\ initPc = "toSettings"
  /\ resolved' = [id \in AllIds |-> IF id \in fetched THEN resolved[id] + 1 ELSE resolved[id]]
  /\ statesLeft' = StatesLeftAfter(statesLeft, fetched)
  /\ fetched' = {}
  /\ Finally(statesLeft')
  /\ controling_device' =
       IF keyMap.controling_device \in fetched
       THEN ToSettingsMode(variant, brokenSpotPrice, heater_mode)
       ELSE controling_device
  /\ UNCHANGED <<constVars, heaterVars, intervalID, intervalTimer, fullListReported,
                 deleted, calls, budgetVars, staleTimerFired, readingVars, heater_mode,
                 isFirstTime, keyChange, inits, modeWriteBy,
                 configVars>>

\* toSettings(fetchedStates) rejects: nothing is stored, statesLeft stays
InitToSettingsThrows ==
  /\ variant = PART000
  /\ initPc = "toSettings"
  /\ failBudget > 0
  /\ failBudget' = failBudget - 1
  /\ fetched' = {}
  /\ Finally(statesLeft)
  /\ UNCHANGED <<constVars, heaterVars, intervalID, intervalTimer, fullListReported,
                 statesLeft, resolved, deleted, calls, cmdBudget, pollBudget, extBudget,
                 staleTimerFired, dataVars>>

\* getDevicePoints(deviceId, []) answers (ok) or throws: the throw is swallowed
InitFullListReturns ==
  /\ variant = PART000
  /\ initPc = "fullList"
  /\ \E ok \in BOOLEAN :
       /\ ~ok => failBudget > 0
       /\ failBudget' = IF ok THEN failBudget ELSE failBudget - 1
       /\ fullListReported' = ok
  /\ FinallyTail(statesLeft)
  /\ UNCHANGED <<constVars, heaterVars, intervalID, intervalTimer, statesLeft, fetched,
                 resolved, deleted, calls, cmdBudget, pollBudget, extBudget,
                 staleTimerFired, dataVars>>

(***************************************************************************)
(* onOAuth2Init of device.js: one read of all ids, retried while it        *)
(* throws; an incomplete answer or a failing setSettings aborts the init.  *)
(***************************************************************************)
C200_InitFetchThrows ==
  /\ variant = C200
  /\ initPc = "fetch"
  /\ failBudget > 0
  /\ failBudget' = failBudget - 1
  /\ available' = FALSE
  /\ initPc' = "fetchSleep"
  /\ AfterDelete(TRUE, FALSE, FALSE)
  /\ UNCHANGED <<constVars, heaterVars, timerVars, fullListReported, listeners,
                 statesLeft, fetched, resolved, deleted, ticks, calls, cmdBudget,
                 pollBudget, extBudget, partialRounds, staleTimerFired, dataVars>>

C200_InitFetchSleepDone ==
  /\ variant = C200
  /\ initPc = "fetchSleep"
  /\ initPc' = "fetch"
  /\ UNCHANGED <<constVars, available, heaterVars, timerVars, fullListReported,
                 listeners, statesLeft, fetched, resolved, deleted, ticks, calls,
                 budgetVars, partialRounds, staleTimerFired, deleteVars, dataVars>>

C200_InitFetchReturns ==
  /\ variant = C200
  /\ initPc = "fetch"
  /\ \E missing \in SUBSET (statesLeft \cap FlakyIds) :
       /\ Cardinality(missing) <= MaxMissing
       /\ missing # {} => failBudget > 0
       /\ failBudget' = IF missing # {} THEN failBudget - 1 ELSE failBudget
       /\ IF missing = {}
          THEN fetched' = statesLeft /\ initPc' = "toSettings"
          ELSE fetched' = {} /\ initPc' = "failed"
  /\ UNCHANGED <<constVars, available, heaterVars, timerVars, fullListReported,
                 listeners, statesLeft, resolved, deleted, ticks, calls, cmdBudget,
                 pollBudget, extBudget, partialRounds, staleTimerFired, deleteVars,
                 dataVars>>

C200_InitSetSettingsReturns ==
  /\ variant = C200
  /\ initPc = "toSettings"
  /\ \E ok \in BOOLEAN :
       /\ ~ok => failBudget > 0
       /\ failBudget' = IF ok THEN failBudget ELSE failBudget - 1
       /\ IF ok
          THEN /\ resolved' = [id \in AllIds |->
                                 IF id \in fetched THEN resolved[id] + 1 ELSE resolved[id]]
               /\ statesLeft' = {}
               /\ ticks' = [ticks EXCEPT ![0] = StartedTick]
               /\ initPc' = "firstUpdate"
          ELSE /\ initPc' = "failed"
               /\ UNCHANGED <<resolved, statesLeft, ticks>>
  /\ fetched' = {}
  /\ controling_device' =
       IF initPc' = "firstUpdate"
       THEN ToSettingsMode(variant, brokenSpotPrice, heater_mode)
       ELSE controling_device
  /\ UNCHANGED <<constVars, available, heaterVars, timerVars, fullListReported,
                 listeners, deleted, calls, cmdBudget, pollBudget, extBudget,
                 partialRounds, staleTimerFired, deleteVars, readingVars, heater_mode,
                 isFirstTime, keyChange, inits, modeWriteBy,
                 configVars>>

(***************************************************************************)
(* updateState.                                                            *)
(***************************************************************************)
\* the periodic timer fires and starts an updateState run
IntervalFire ==
  /\ intervalTimer # "off"
  /\ pollBudget > 0
  /\ pollBudget' = pollBudget - 1
  /\ \E t \in TickIds \ {0} :
       /\ ticks[t].pc = "idle"
       /\ \A u \in TickIds \ {0} : u < t => ticks[u].pc # "idle"
       /\ ticks' = [ticks EXCEPT ![t] = StartedTick]
  /\ staleTimerFired' = (staleTimerFired \/ intervalTimer = "stale")
  /\ UNCHANGED <<constVars, available, heaterVars, timerVars, initVars, listeners,
                 deleted, calls, failBudget, cmdBudget, extBudget, deleteVars,
                 dataVars>>

\* getDevicePoints throws: unavailable, sleep, then the loop reads again
PollFetchThrows(t) ==
  /\ ticks[t].pc = "fetch"
  /\ failBudget > 0
  /\ failBudget' = failBudget - 1
  /\ available' = FALSE
  /\ ticks' = [ticks EXCEPT ![t] = [pc |-> "sleep", nFail |-> @.nFail + 1,
                                    nUnavail |-> @.nUnavail + 1]]
  /\ AfterDelete(TRUE, FALSE, FALSE)
  /\ UNCHANGED <<constVars, heaterVars, timerVars, initVars, listeners, deleted, calls,
                 cmdBudget, pollBudget, extBudget, staleTimerFired, dataVars>>

PollSleepDone(t) ==
  /\ ticks[t].pc = "sleep"
  /\ ticks' = [ticks EXCEPT ![t].pc = "fetch"]
  /\ UNCHANGED <<constVars, available, heaterVars, timerVars, initVars, listeners,
                 deleted, calls, budgetVars, staleTimerFired, deleteVars, dataVars>>

\* case 517 of the loop over the points: the cached state takes the observed
\* value, then setHeaterState is called (not awaited) with the cached state
OnAfter517(cur) == cur # 0
LevelChanged(cur, cached) == cur # 0 /\ cur # cached
MaxPowerAfter517(cur) == IF cur = 0 THEN max_power ELSE cur

\* What the caller of updateState does when it returns: initialization (run 0)
\* starts the periodic timer and marks the device available; a timer's run has
\* no caller.
AfterUpdateState(t) ==
  IF t = 0
  THEN /\ intervalID' = TRUE
       /\ intervalTimer' = "armed"
       /\ initPc' = "complete"
       /\ listeners' = TRUE
  ELSE UNCHANGED <<intervalID, intervalTimer, initPc, listeners>>

(***************************************************************************)
(* The retry-wrapped writes: setHeaterState, setAmbientTemp, onSettings    *)
(* and the target_temperature listener share one loop,                     *)
(*   while (!response || response.ok === false) {                          *)
(*     try { response = await setDevicePoint(...) }                        *)
(*     catch (err) { setUnavailable(...); await sleep(10000) } }           *)
(*   setAvailable()                                                        *)
(***************************************************************************)
\* a listener, a flow card or onSettings (of a key that is neither the mode
\* nor a price setting) starts a write
UserCommand(c) ==
  /\ ~deleted
  /\ initPc # "start"
  /\ cmdBudget > 0
  /\ cmdBudget' = cmdBudget - 1
  /\ FreeCall(c)
  /\ \E kind \in WriteKinds, turnOn \in BOOLEAN, newPower \in 0..3 :
       /\ kind # SETTINGS => listeners
       /\ IF kind = HEATER
          THEN \/ newPower = max_power                  \* the onoff listener
               \/ turnOn = is_on /\ newPower \in 1..3   \* the max_power listener, the flow card
          ELSE ~turnOn /\ newPower = 0
       /\ calls' = [calls EXCEPT ![c] = NewCall(kind, "user", turnOn, newPower)]
  /\ UNCHANGED <<constVars, available, heaterVars, timerVars, initVars, listeners,
                 deleted, ticks, failBudget, pollBudget, extBudget, staleTimerFired,
                 deleteVars, dataVars>>

\* what newSettings holds for the key that changed: the mode the user chose,
\* or a price setting (its value plays no part)
SettingsChanges ==
  [id : {keyMap.controling_device}, value : ModeValues]
    \cup [id : SpotIds, value : {"none"}]

\* the filter of onSettings: the key's write is left out
Filtered(broken, change) == broken /\ change.id >= 544 /\ change.id <= 548

\* the settings once onSettings has resolved: newSettings are the settings
Saved(setting, change) ==
  IF change.id = keyMap.controling_device THEN change.value ELSE setting

\* onSettings with the mode or a price setting among changedKeys: keyChange is
\* written unless it is empty, and newSettings are kept once onSettings resolves
onSettings(c) ==
  /\ ~deleted
  /\ initPc # "start"
  /\ cmdBudget > 0
  /\ cmdBudget' = cmdBudget - 1
  /\ FreeCall(c)
  /\ keyChange = NoChange
  /\ \E change \in SettingsChanges :
       /\ change.id = keyMap.controling_device => change.value # controling_device
       /\ IF Filtered(brokenSpotPrice, change)
          THEN UNCHANGED <<calls, keyChange, controling_device>>
          ELSE /\ calls' = [calls EXCEPT ![c] = NewCall(SETTINGS, "user", FALSE, 0)]
               /\ keyChange' = change
               /\ UNCHANGED controling_device
  /\ UNCHANGED <<constVars, available, heaterVars, timerVars, initVars, listeners,
                 deleted, ticks, failBudget, pollBudget, extBudget, staleTimerFired,
                 deleteVars, readingVars, heater_mode, isFirstTime, inits, modeWriteBy,
                 configVars>>

\* setDevicePoint throws: catch block, then the sleep is awaited
WriteThrows(c) ==
  /\ calls[c].pc = "write"
  /\ failBudget > 0
  /\ failBudget' = failBudget - 1
  /\ available' = FALSE
  /\ calls' = [calls EXCEPT ![c].pc = "sleep", ![c].nFail = @ + 1, ![c].nUnavail = @ + 1]
  /\ AfterDelete(TRUE, FALSE, FALSE)
  /\ UNCHANGED <<constVars, heaterVars, timerVars, initVars, listeners, deleted, ticks,
                 cmdBudget, pollBudget, extBudget, staleTimerFired, dataVars>>

\* the sleep is over: the loop issues the write again
WriteSleepDone(c) ==
  /\ calls[c].pc = "sleep"
  /\ calls' = [calls EXCEPT ![c].pc = "write"]
  /\ AfterDelete(FALSE, TRUE, FALSE)
  /\ UNCHANGED <<constVars, available, heaterVars, timerVars, initVars, listeners,
                 deleted, ticks, budgetVars, staleTimerFired, dataVars>>

\* a loop that takes an answer with ok === false for the end of the call
WriteNotOkGivesUp(c) ==
  /\ calls[c].pc = "write"
  /\ failBudget > 0
  /\ failBudget' = failBudget - 1
  /\ calls' = [calls EXCEPT ![c].pc = "idle", ![c].nFail = @ + 1]
  /\ AfterDelete(FALSE, TRUE, FALSE)
  /\ UNCHANGED <<constVars, available, heaterVars, timerVars, initVars, listeners,
                 deleted, ticks, cmdBudget, pollBudget, extBudget, staleTimerFired,
                 dataVars>>

\* setDevicePoint resolves with ok === false: no catch block runs, the loop
\* condition holds and the write is issued again at once
WriteNotOk(c) ==
  /\ calls[c].pc = "write"
  /\ failBudget > 0
  /\ failBudget' = failBudget - 1
  /\ calls' = [calls EXCEPT ![c].nFail = @ + 1]
  /\ AfterDelete(FALSE, TRUE, FALSE)
  /\ UNCHANGED <<constVars, available, heaterVars, timerVars, initVars, listeners,
                 deleted, ticks, cmdBudget, pollBudget, extBudget, staleTimerFired,
                 dataVars>>

\* the run of acknowledged setHeaterState calls of one level: a call of the
\* run's level joins it, a call of another level starts a new run
\* watt is the max_power token of the run's last event
JoinRun(run, level, cached, emit, watt) ==
  IF run.n > 0 /\ run.level = level
  THEN [run EXCEPT !.n = 2, !.emitted = @ + (IF emit THEN 1 ELSE 0),
                   !.watt = IF emit THEN watt ELSE @]
  ELSE [level |-> level, n |-> 1, emitted |-> IF emit THEN 1 ELSE 0,
        fromOther |-> cached # level, watt |-> IF emit THEN watt ELSE 0]

\* setDevicePoint resolves ok: setAvailable, then (setHeaterState) steps 2 to 4
WriteOk(c) ==
  /\ calls[c].pc = "write"
  /\ available' = TRUE
  /\ IF calls[c].kind = HEATER
     THEN LET emit == Emits(calls[c].newPower, max_power) IN
          /\ events' = IF emit THEN events + 1 ELSE events
          /\ is_on' = calls[c].turnOn
          /\ max_power' = calls[c].newPower
          /\ dev517' = power(calls[c].turnOn, calls[c].newPower)
          /\ ackRun' = JoinRun(ackRun, calls[c].newPower, max_power, emit,
                               newPowerWatt(variant, calls[c].newPower,
                                            HeaterNomPower, HeaterNomPower2))
          /\ userLevel' = IF calls[c].origin # "user" THEN userLevel
                          ELSE power(calls[c].turnOn, calls[c].newPower)
     ELSE UNCHANGED heaterVars
  /\ IF calls[c].kind = SETTINGS /\ keyChange # NoChange
     THEN /\ heater_mode' = IF keyChange.id = keyMap.controling_device
                            THEN keyChange.value ELSE heater_mode
          /\ controling_device' = Saved(controling_device, keyChange)
          /\ keyChange' = NoChange
     ELSE UNCHANGED <<heater_mode, controling_device, keyChange>>
  /\ calls' = [calls EXCEPT ![c] = IdleCall]
  /\ AfterDelete(TRUE, FALSE, FALSE)
  /\ UNCHANGED <<constVars, timerVars, initVars, listeners, deleted, ticks, budgetVars,
                 staleTimerFired, readingVars, isFirstTime, inits, modeWriteBy,
                 configVars>>

\* requested_power is changed on the device or in the cloud, not by this app
ExternalChange ==
  /\ extBudget > 0
  /\ initPc # "start"
  /\ extBudget' = extBudget - 1
  /\ \E v \in 0..3 : v # dev517 /\ dev517' = v
  /\ userLevel' = 0
  /\ UNCHANGED <<constVars, available, is_on, max_power, events, ackRun, timerVars,
                 initVars, listeners, deleted, ticks, calls, failBudget, cmdBudget,
                 pollBudget, staleTimerFired, deleteVars, dataVars>>

(***************************************************************************)
(* onOAuth2Deleted.  device.js defines the method twice; the class keeps   *)
(* the later definition, which only logs.                                  *)
(***************************************************************************)
\* a timer is cleared when its id is defined
Cleared(timer, id) == IF id THEN "off" ELSE timer

\* a timer that survives the deletion is one that was pending at it
Survivor(timer) == IF timer = "off" THEN "off" ELSE "stale"

PART000_onOAuth2Deleted ==
  /\ intervalTimer' = Survivor(Cleared(intervalTimer, intervalID))
  /\ intervalID' = FALSE
  /\ initTimer' = Survivor(Cleared(initTimer, initializeID))
  /\ initializeID' = FALSE

C200_onOAuth2Deleted ==
  /\ intervalTimer' = Survivor(intervalTimer)
  /\ initTimer' = Survivor(initTimer)
  /\ UNCHANGED <<intervalID, initializeID>>

onOAuth2Deleted ==
  /\ ~deleted
  /\ initPc # "start"
  /\ deleted' = TRUE
  /\ IF variant = C200 THEN C200_onOAuth2Deleted ELSE PART000_onOAuth2Deleted
  /\ UNCHANGED <<constVars, available, heaterVars, initVars, listeners, ticks, calls,
                 budgetVars, staleTimerFired, deleteVars, dataVars>>

(***************************************************************************)
(* The answers to a poll.  updateState asks for 302, 303, 400, 404, 517,   *)
(* 527 and 528; an answer holds an entry for each point or lacks it, and   *)
(* an entry may lack its value.  Point 517 is kept apart (dev517).         *)
(***************************************************************************)
MaxLacking == 1        \* points a single answer may lack

PolledIds == {302, 303, 400, 404, 527, 528}

Missing == [t |-> "missing", v |-> 0]     \* no entry for the point
NoValue == [t |-> "novalue", v |-> 0]     \* an entry without "value"

\* 'parameterId' in entry && 'value' in entry
Present(entry) == entry.t \notin {"missing", "novalue"}

\* what the device reports at two moments, and a report whose temperature is
\* no number
SampleA == [p \in PolledIds |->
              CASE p = 302 -> Val(1000) [] p = 303 -> Val(100000) [] p = 400 -> Val(0)
                [] p = 404 -> Val(80) [] p = 527 -> Val(6500) [] p = 528 -> Val(5990)]
SampleB == [p \in PolledIds |->
              CASE p = 302 -> Val(1000) [] p = 303 -> Val(100004) [] p = 400 -> Val(2000)
                [] p = 404 -> Val(90) [] p = 527 -> Val(7000) [] p = 528 -> Val(2400)]
SampleBad == [SampleA EXCEPT ![528] = Text]
PollSamples == {SampleA, SampleB, SampleBad}

NoData == [p \in PolledIds |-> Missing]
NothingPublished == [p \in PolledIds |-> Undefined]

Answers ==
  {[p \in PolledIds |-> IF p \in lacking THEN hole ELSE sample[p]] :
     sample \in PollSamples,
     lacking \in {l \in SUBSET PolledIds : Cardinality(l) <= MaxLacking},
     hole \in {Missing, NoValue}}

\* the answers the cloud gives: beyond the budget it reports point 517 at most
AnswersLeft(budget) == IF budget > 0 THEN Answers ELSE {NoData}

\* setCapabilityValue(..., devPoints[loop].value) for every entry that is there
PublishReset(pub, ans) == [p \in PolledIds |-> IF Present(ans[p]) THEN ans[p] ELSE Undefined]
Publish(pub, ans) == [p \in PolledIds |-> IF Present(ans[p]) THEN ans[p] ELSE pub[p]]

\* logTotal, logTemp, logStored: undefined unless the entry is there
LogValue(ans, p) == IF Present(ans[p]) THEN ans[p] ELSE Undefined

\* the readings handed to logLeakage, and the minutes between two polls
SampleStep == 5
Reading(u, t, s) == [totalUsage |-> u, temperature |-> t, inTank |-> s]
AllNumbers(r) ==
  r.totalUsage.t = "number" /\ r.temperature.t = "number" /\ r.inTank.t = "number"

\* no poll has been answered
NoPolls == published = NothingPublished /\ answer = NoData

\* the leak relation of a call: none, the number 100, or the quotient
\* 100 * leaked / added, kept as its two energies
NoRelation == [k |-> "none", leaked |-> 0, added |-> 0]

NoCall ==
  [totalUsage |-> Undefined, temperature |-> Undefined, inTank |-> Undefined,
   threw |-> FALSE, published |-> FALSE, stored |-> FALSE, returnedEarly |-> FALSE,
   updated |-> FALSE, leakRelation |-> NoRelation]

NoStore == [prevAccumTime |-> Undefined, writes |-> 0]

\* the estimator while the lifecycle alone is looked at
EstimatorIdle ==
  /\ leakageConstant = Num(DefaultLeakageConstant)
  /\ accumulatedLeakage = Num(0)
  /\ currentLeakage = Num(0)
  /\ prevAccumTime = 0
  /\ outsideTemp = DefaultOutsideTemp
  /\ tankVolume = DefaultTankVolume
  /\ prevPower = Undefined /\ prevTemp = Undefined
  /\ prevStored = Undefined /\ prevTime = 0
  /\ pastLeakage = <<>>
  /\ prevRelationTime = Undefined
  /\ prevRelationUse = Undefined
  /\ prevRelationLeak = Num(0)
  /\ store = NoStore
  /\ now = 0
  /\ leakBudget = 0
  /\ numericOnly = TRUE
  /\ lastCall = NoCall
  /\ NoPolls

LeakIdle == deviceType = DEVICE_TYPE_CONNECTED_200 /\ EstimatorIdle

Init == LifeInit /\ LeakIdle /\ ModeSettled /\ ConfigSettled

(***************************************************************************)
(* logLeakage of part_000: the constant is fixed, the leaked energy is     *)
(* accumulated and, once a day, related to the energy used.                *)
(***************************************************************************)
Hundred == [k |-> "hundred", leaked |-> 1, added |-> 1]
Ratio(leaked, added) == [k |-> "ratio", leaked |-> leaked, added |-> added]

\* (addedEnergy > leakedEnergy) ? (100 * leakedEnergy) / addedEnergy : 100
LeakRelation(leakedEnergy, addedEnergy) ==
  IF addedEnergy > leakedEnergy THEN Ratio(leakedEnergy, addedEnergy) ELSE Hundred

\* the published relation is a number above 100
Above100(rel) ==
  /\ rel.k = "ratio"
  /\ \/ rel.added > 0 /\ rel.leaked > rel.added
     \/ rel.added < 0 /\ rel.leaked < rel.added

Rejected(totalUsage, temperature, inTank) ==
  isNaN(totalUsage) \/ isNaN(temperature) \/ isNaN(inTank)

Throws(totalUsage, temperature, inTank) ==
  /\ lastCall' = [NoCall EXCEPT !.totalUsage = totalUsage, !.temperature = temperature,
                                !.inTank = inTank, !.threw = TRUE]
  /\ UNCHANGED <<estimatorVars, store>>

PART000_logLeakage(totalUsage, temperature, inTank, newTime) ==
  IF Rejected(totalUsage, temperature, inTank)
  THEN Throws(totalUsage, temperature, inTank)
  ELSE
    LET outerTempDiff == ToNumber(temperature).v - outsideTemp
        accumTimeDiff == newTime - prevAccumTime
        leak == XDiv(XMul(leakageConstant, outerTempDiff), 10000)
        timedLeakage == XMul(leak, accumTimeDiff)
        accumulated == IF timedLeakage.k # "nan" THEN XAdd(accumulatedLeakage, timedLeakage)
                       ELSE accumulatedLeakage
        accumTime == IF timedLeakage.k # "nan" THEN newTime ELSE prevAccumTime
        storeNow == /\ timedLeakage.k # "nan"
                    /\ store.prevAccumTime.t = "number"
                    /\ accumTime - store.prevAccumTime.v > DayMinutes
        first == prevRelationTime.t = "undefined"
        daily == ~first /\ newTime - prevRelationTime.v > DayMinutes
        leakedEnergy == accumulated.v - prevRelationLeak.v
        addedEnergy == EnergyUnit * (ToNumber(totalUsage).v - ToNumber(prevRelationUse).v)
    IN
    /\ prevAccumTime' = accumTime
    /\ accumulatedLeakage' = accumulated
    /\ store' = IF storeNow
                THEN [prevAccumTime |-> Val(accumTime), writes |-> store.writes + 1]
                ELSE store
    /\ prevRelationTime' = IF first \/ daily THEN Val(newTime) ELSE prevRelationTime
    /\ prevRelationUse' = IF first \/ daily THEN totalUsage ELSE prevRelationUse
    /\ prevRelationLeak' = IF first \/ daily THEN accumulated ELSE prevRelationLeak
    /\ lastCall' = [NoCall EXCEPT
                      !.totalUsage = totalUsage, !.temperature = temperature,
                      !.inTank = inTank,
                      !.published = (timedLeakage.k # "nan" \/ daily),
                      !.stored = storeNow,
                      !.leakRelation = IF daily THEN LeakRelation(leakedEnergy, addedEnergy)
                                       ELSE NoRelation]
    /\ UNCHANGED <<leakageConstant, currentLeakage, outsideTemp, tankVolume, prevPower,
                   prevTemp, prevStored, prevTime, pastLeakage>>

(***************************************************************************)
(* logLeakage of device.js: the constant is estimated from the window of   *)
(* the last LOGITEMS samples.                                              *)
(***************************************************************************)
\* for (idx = LOGITEMS-1; idx > 0; idx--)
\*   if (pastLeakage[idx-1] != undefined) pastLeakage[idx] = pastLeakage[idx-1]
\* The array is kept as a sequence, array index idx being position idx + 1.  The
\* loop runs downwards, so the slot an iteration reads is one no iteration has
\* written yet: Moves says whether the iteration of idx assigns, and writing
\* one past the end makes the array longer.
Moves(window, idx) == idx >= 1 /\ idx <= LOGITEMS - 1 /\ idx <= Len(window)

ShiftLoop(window) ==
  LET top == IF Moves(window, Len(window)) THEN Len(window) + 1 ELSE Len(window)
  IN [p \in 1..top |-> IF Moves(window, p - 1) THEN window[p - 1] ELSE window[p]]

\* this.pastLeakage[0] = prevData
SetFirst(window, prevData) ==
  IF Len(window) = 0 THEN <<prevData>> ELSE [window EXCEPT ![1] = prevData]

\* a window that drops nothing
ShiftKeepAll(window, prevData) == <<prevData>> \o window

\* the window after the new sample is put in front of it
Shift(window, prevData) == SetFirst(ShiftLoop(window), prevData)

\* a count that takes the samples of a heating tank too
IncludedHeated(w) == {i \in DOMAIN w : w[i].tempDiff <= 0}

\* the samples counted into temp_diffs
Included(w) == {i \in DOMAIN w : w[i].powDiff = 0 /\ w[i].tempDiff <= 0}
Keys(w) == {w[i].tempDiff : i \in Included(w)}
temp_diffs(w, key) == Cardinality({i \in Included(w) : w[i].tempDiff = key})
FirstAt(w, key) == CHOOSE i \in Included(w) :
                     /\ w[i].tempDiff = key
                     /\ \A j \in Included(w) : w[j].tempDiff = key => i <= j

\* keys.sort(...): by falling count, keys of one count in the order they were
\* put into temp_diffs
SortsBefore(w, a, b) ==
  \/ temp_diffs(w, a) > temp_diffs(w, b)
  \/ temp_diffs(w, a) = temp_diffs(w, b) /\ FirstAt(w, a) < FirstAt(w, b)

SortedKey(w, skip) ==
  CHOOSE a \in Keys(w) \ skip : \A b \in Keys(w) \ (skip \cup {a}) : SortsBefore(w, a, b)

NoKeys == [key0 |-> Undefined, key1 |-> Undefined]
Only(key0) == [key0 |-> Val(key0), key1 |-> Undefined]
Both(key0, key1) == [key0 |-> Val(key0), key1 |-> Val(key1)]

\* a choice that takes the more frequent neighbour whatever the other one has
SelectKeysUnchecked(w) ==
  IF Keys(w) = {} THEN NoKeys
  ELSE
    LET s0 == SortedKey(w, {})
        more == Cardinality(Keys(w)) > 1
        s1 == SortedKey(w, {s0})
        key1a == s0 - 1
        key1b == s0 + 1
    IN
    IF temp_diffs(w, s0) < MinEntries THEN NoKeys
    ELSE IF more /\ Abs(s1 - s0) # 1
    THEN (IF temp_diffs(w, s0) < 3 * temp_diffs(w, s1) THEN NoKeys ELSE Only(s0))
    ELSE IF ~(key1a \in Keys(w) \/ key1b \in Keys(w)) THEN Only(s0)
    ELSE IF temp_diffs(w, key1a) >= temp_diffs(w, key1b) THEN Both(s0, key1a)
    ELSE Both(s0, key1b)

\* the temp diffs the leakage is calculated from
SelectKeys(w) ==
  IF Keys(w) = {} THEN NoKeys
  ELSE
    LET s0 == SortedKey(w, {})
        more == Cardinality(Keys(w)) > 1
        s1 == SortedKey(w, {s0})
        key1a == s0 - 1
        key1b == s0 + 1
        has1a == key1a \in Keys(w)
        has1b == key1b \in Keys(w)
    IN
    IF temp_diffs(w, s0) < MinEntries THEN NoKeys
    ELSE IF more /\ Abs(s1 - s0) # 1
    THEN (IF temp_diffs(w, s0) < 3 * temp_diffs(w, s1) THEN NoKeys ELSE Only(s0))
    ELSE IF ~(has1a \/ has1b) THEN Only(s0)
    ELSE IF ~has1a THEN Both(s0, key1b)
    ELSE IF ~has1b THEN Both(s0, key1a)
    ELSE IF temp_diffs(w, key1a) >= temp_diffs(w, key1b)
    THEN (IF temp_diffs(w, key1a) > 2 * temp_diffs(w, key1b) THEN Both(s0, key1a)
          ELSE NoKeys)
    ELSE (IF temp_diffs(w, key1b) > 2 * temp_diffs(w, key1a) THEN Both(s0, key1b)
          ELSE NoKeys)

\* -tempDiff * 1000000 / (outerTempDiff * timeDiff) of one sample, in 1/1000000;
\* a zero divisor has the sign of outerTempDiff
DropOf(e) ==
  IF e.outerTempDiff = 0 \/ e.timeDiff = 0
  THEN (IF e.tempDiff = 0 THEN NaN
        ELSE Inf(-(Sign(e.tempDiff) * (IF e.outerTempDiff < 0 THEN -1 ELSE 1))))
  ELSE Num(TDiv(-(e.tempDiff * 50000000), 3 * e.outerTempDiff * e.timeDiff))

RECURSIVE DropSum(_, _, _)
\* temp_drop_val: the loop over the whole window
DropSum(w, keys, idx) ==
  IF idx > Len(w) THEN Num(0)
  ELSE IF Val(w[idx].tempDiff) = keys.key0 \/ Val(w[idx].tempDiff) = keys.key1
       THEN XAdd(DropOf(w[idx]), DropSum(w, keys, idx + 1))
       ELSE DropSum(w, keys, idx + 1)

temp_drop_count(w, keys) ==
  temp_diffs(w, keys.key0.v) + (IF keys.key1.t = "undefined" THEN 0
                                ELSE temp_diffs(w, keys.key1.v))

\* (4.187 * temp_drop_val * this.tankVolume) / temp_drop_count, in mW/K
new_leakageConstant(w, keys, volume) ==
  XDiv(XMul(XDiv(DropSum(w, keys, 1), temp_drop_count(w, keys)),
            (WaterHeat * volume) \div 1000), 1000)

\* a blend that keeps the old constant
SmoothKeep(old, new) == old
\* (0.99 * this.leakageConstant) + (0.01 * new_leakageConstant)
Smooth(old, new) == XDiv(XAdd(XMul(old, 99), new), 100)

C200_logLeakage(total_usage, temperature, in_tank, new_time) ==
  IF Rejected(total_usage, temperature, in_tank)
  THEN Throws(total_usage, temperature, in_tank)
  ELSE IF LooseUndefined(prevPower) \/ LooseUndefined(prevTemp) \/ LooseUndefined(prevStored)
  THEN /\ prevPower' = total_usage /\ prevTemp' = temperature
       /\ prevStored' = in_tank /\ prevTime' = new_time
       /\ lastCall' = [NoCall EXCEPT
                         !.totalUsage = total_usage, !.temperature = temperature,
                         !.inTank = in_tank, !.returnedEarly = TRUE]
       /\ UNCHANGED <<leakageConstant, accumulatedLeakage, currentLeakage, prevAccumTime,
                      outsideTemp, tankVolume, pastLeakage, prevRelationTime,
                      prevRelationUse, prevRelationLeak, store>>
  ELSE
    LET powDiff == ToNumber(total_usage).v - ToNumber(prevPower).v
        tempDiff == ToNumber(temperature).v - ToNumber(prevTemp).v
        storeDiff == ToNumber(in_tank).v - ToNumber(prevStored).v
        timeDiff == new_time - prevTime
        outerTempDiff == ToNumber(temperature).v - outsideTemp
        prevData == [powDiff |-> ToFixed1(powDiff), tempDiff |-> ToFixed1(tempDiff),
                     timeDiff |-> timeDiff, storeDiff |-> storeDiff,
                     outerTempDiff |-> ToFixed1(outerTempDiff)]
        w == Shift(pastLeakage, prevData)
        keys == SelectKeys(w)
        noOldData == currentLeakage.k = "nan" \/ currentLeakage = Num(0)
        constant == IF keys.key0.t = "undefined" THEN leakageConstant
                    ELSE Smooth(leakageConstant, new_leakageConstant(w, keys, tankVolume))
        accum_time_diff == new_time - prevAccumTime
        leak == XDiv(XMul(constant, outerTempDiff), 10000)
    IN
    /\ prevPower' = total_usage /\ prevTemp' = temperature
    /\ prevStored' = in_tank /\ prevTime' = new_time
    /\ pastLeakage' = w
    /\ IF keys.key0.t = "undefined" /\ noOldData
       THEN /\ lastCall' = [NoCall EXCEPT
                              !.totalUsage = total_usage, !.temperature = temperature,
                              !.inTank = in_tank, !.returnedEarly = TRUE]
            /\ UNCHANGED <<leakageConstant, accumulatedLeakage, currentLeakage,
                           prevAccumTime, store>>
       ELSE /\ leakageConstant' = constant
            /\ prevAccumTime' = new_time
            /\ currentLeakage' = leak
            /\ accumulatedLeakage' = XAdd(accumulatedLeakage, XMul(leak, accum_time_diff))
            /\ store' = [prevAccumTime |-> Val(new_time), writes |-> store.writes + 1]
            /\ lastCall' = [NoCall EXCEPT
                              !.totalUsage = total_usage, !.temperature = temperature,
                              !.inTank = in_tank, !.published = TRUE, !.stored = TRUE,
                              !.updated = (keys.key0.t # "undefined")]
    /\ UNCHANGED <<outsideTemp, tankVolume, prevRelationTime, prevRelationUse,
                   prevRelationLeak>>

(***************************************************************************)
(* updateState once getDevicePoints has answered.                          *)
(***************************************************************************)
\* logLeakage is async: what it throws rejects the promise it returns, which
\* updateState drops, and updateState goes on
PropagatesThrow(threw) == threw
Propagates(threw) == FALSE

\* this.logLeakage(logTotal, logTemp, logStored): part_000 calls it when all
\* three readings are there, device.js calls it always
CallsLogLeakage(logTotal, logTemp, logStored) ==
  \/ variant = C200
  \/ ~(logTotal.t = "undefined" \/ logTemp.t = "undefined" \/ logStored.t = "undefined")

\* getDevicePoints answers; has517 says whether the answer holds point 517
PollFetchReturns(t) ==
  /\ ticks[t].pc = "fetch"
  /\ \E has517 \in BOOLEAN :
       IF has517
       THEN \E c \in CallIds :
              /\ FreeCall(c)
              /\ is_on' = OnAfter517(dev517)
              /\ max_power' = MaxPowerAfter517(dev517)
              /\ calls' = [calls EXCEPT ![c] =
                             PollCall(is_on', max_power', LevelChanged(dev517, max_power))]
              /\ ackRun' = IF max_power' # max_power THEN NoRun ELSE ackRun
              /\ AfterDelete(TRUE, TRUE, t = 0)
       ELSE /\ UNCHANGED <<is_on, max_power, calls, ackRun>>
            /\ AfterDelete(TRUE, FALSE, t = 0)
  /\ \E ans \in AnswersLeft(leakBudget) :
       LET logTotal == LogValue(ans, 303)
           logTemp == LogValue(ans, 528)
           logStored == LogValue(ans, 302)
           called == CallsLogLeakage(logTotal, logTemp, logStored)
           threw == called /\ Rejected(logTotal, logTemp, logStored)
       IN
       /\ answer' = ans
       /\ published' = Publish(published, ans)
       /\ leakBudget' = IF leakBudget > 0 THEN leakBudget - 1 ELSE 0
       /\ now' = IF leakBudget > 0 THEN now + SampleStep ELSE now
       /\ numericOnly' =
            (numericOnly /\ (called => AllNumbers(Reading(logTotal, logTemp, logStored))))
       /\ IF ~called THEN UNCHANGED <<estimatorVars, store, lastCall>>
          ELSE IF variant = C200 THEN C200_logLeakage(logTotal, logTemp, logStored, now')
          ELSE PART000_logLeakage(logTotal, logTemp, logStored, now')
       /\ available' = IF Propagates(threw) THEN available ELSE TRUE
  /\ ticks' = [ticks EXCEPT ![t] = IdleTick]
  /\ AfterUpdateState(t)
  /\ UNCHANGED <<constVars, dev517, events, userLevel, initializeID, initTimer,
                 fullListReported,
                 statesLeft, fetched, resolved, partialRounds, deleted, budgetVars,
                 staleTimerFired, deviceType, modeVars, configVars>>

Next ==
  \/ onOAuth2Init
  \/ InitTimerFire
  \/ InitFetchThrows
  \/ InitFetchReturns
  \/ InitToSettingsReturns
  \/ InitToSettingsThrows
  \/ InitFullListReturns
  \/ C200_InitFetchThrows
  \/ C200_InitFetchSleepDone
  \/ C200_InitFetchReturns
  \/ C200_InitSetSettingsReturns
  \/ IntervalFire
  \/ \E t \in TickIds : PollFetchThrows(t)
  \/ \E t \in TickIds : PollSleepDone(t)
  \/ \E t \in TickIds : PollFetchReturns(t)
  \/ \E c \in CallIds : UserCommand(c)
  \/ \E c \in CallIds : WriteThrows(c)
  \/ \E c \in CallIds : WriteSleepDone(c)
  \/ \E c \in CallIds : WriteNotOk(c)
  \/ \E c \in CallIds : WriteOk(c)
  \/ ExternalChange
  \/ onOAuth2Deleted

Spec == Init /\ [][Next]_vars

(***************************************************************************)
(* The estimator alone: logLeakage is called with readings drawn from      *)
(* small sets, as updateState calls it with what the cloud answered.       *)
(***************************************************************************)
MaxLeakCalls == 2      \* logLeakage calls in one behaviour

Temps == {Val(1990), Val(2400), Val(5990)}
Usages == {Val(100000), Val(100004), Val(100100)}
Stored == Val(1000)
BadValues == {Undefined, NaNValue, Text, Null}
TimeSteps == {0, 5, 1500}

Readings ==
  {Reading(u, t, Stored) : u \in Usages, t \in Temps}
    \cup {Reading(b, Val(5990), Stored) : b \in BadValues}
    \cup {Reading(Val(100000), b, Stored) : b \in BadValues}
    \cup {Reading(Val(100000), Val(5990), b) : b \in BadValues}


\* The window after SeedLen polls, SampleStep apart, in which the energy read
\* stayed and the temperature moved by d from poll to poll and ended at last:
\* one entry short of what the estimator asks for, so every call returned early
SeedLen == MinEntries - 1
SeedRuns == {<<2400, 0>>, <<2000, -1>>, <<6000, -1>>}
SeedWindow(last, d) ==
  [i \in 1..SeedLen |->
     [powDiff |-> 0, tempDiff |-> d, timeDiff |-> SampleStep, storeDiff |-> 0,
      outerTempDiff |-> ToFixed1(last - (i - 1) * d * 10 - DefaultOutsideTemp)]]

LeakStart ==
  /\ leakBudget = MaxLeakCalls
  /\ numericOnly = TRUE
  /\ lastCall = NoCall
  /\ accumulatedLeakage = Num(0)
  /\ currentLeakage = Num(0)
  /\ prevAccumTime = 0
  /\ outsideTemp = DefaultOutsideTemp
  /\ prevRelationTime = Undefined
  /\ prevRelationUse = Undefined
  /\ prevRelationLeak = Num(0)
  /\ IF variant = C200
     THEN /\ deviceType = DEVICE_TYPE_CONNECTED_200
          /\ leakageConstant = Num(DefaultLeakageConstant)
          /\ tankVolume = DefaultTankVolume
          /\ store = NoStore
          /\ \/ /\ pastLeakage = <<>>
                /\ prevPower = Undefined /\ prevTemp = Undefined
                /\ prevStored = Undefined /\ prevTime = 0
                /\ now = 0
             \/ \E run \in SeedRuns :
                  /\ pastLeakage = SeedWindow(run[1], run[2])
                  /\ prevPower = Val(100000) /\ prevTemp = Val(run[1])
                  /\ prevStored = Stored /\ prevTime = SeedLen * SampleStep
                  /\ now = SeedLen * SampleStep
     ELSE /\ deviceType \in {DEVICE_TYPE_CONNECTED_200, DEVICE_TYPE_CONNECTED_300}
          /\ leakageConstant = SeedLeakageConstant(deviceProperties(deviceType))
          /\ tankVolume = deviceProperties(deviceType).size
          /\ store \in {NoStore, [NoStore EXCEPT !.prevAccumTime = Val(0)]}
          /\ pastLeakage = <<>>
          /\ prevPower = Undefined /\ prevTemp = Undefined
          /\ prevStored = Undefined /\ prevTime = 0
          /\ now = 0

LeakInit ==
  LifeInit /\ dev517 = 3 /\ LeakStart /\ NoPolls /\ ModeSettled /\ ConfigSettled

\* updateState hands the readings of one answer to logLeakage
logLeakage ==
  /\ leakBudget > 0
  /\ leakBudget' = leakBudget - 1
  /\ \E r \in Readings, step \in TimeSteps :
       /\ ~AllNumbers(r) => numericOnly
       /\ numericOnly' = (numericOnly /\ AllNumbers(r))
       /\ now' = now + step
       /\ IF variant = C200
          THEN C200_logLeakage(r.totalUsage, r.temperature, r.inTank, now')
          ELSE PART000_logLeakage(r.totalUsage, r.temperature, r.inTank, now')
  /\ UNCHANGED <<lifeVars, deviceType, pollVars, modeVars, configVars>>

LeakNext == logLeakage

LeakSpec == LeakInit /\ [][LeakNext]_vars

(***************************************************************************)
(* The polls with the data they read: the device is initialized, the       *)
(* timer fires, and the answers hold the measurements or lack some.  The   *)
(* estimator starts as onOAuth2Init leaves it on a device with no store.   *)
(***************************************************************************)
PollInit ==
  /\ LifeInit
  /\ LeakStart
  /\ deviceType = DEVICE_TYPE_CONNECTED_200
  /\ pastLeakage = <<>>
  /\ store = NoStore
  /\ NoPolls
  /\ ModeSettled
  /\ ConfigSettled

PollNext ==
  \/ onOAuth2Init
  \/ InitTimerFire
  \/ InitFetchReturns
  \/ InitToSettingsReturns
  \/ InitFullListReturns
  \/ C200_InitFetchReturns
  \/ C200_InitSetSettingsReturns
  \/ IntervalFire
  \/ \E t \in TickIds : PollFetchThrows(t)
  \/ \E t \in TickIds : PollSleepDone(t)
  \/ \E t \in TickIds : PollFetchReturns(t)
  \/ \E c \in CallIds : WriteOk(c)

PollSpec == PollInit /\ [][PollNext]_vars

(***************************************************************************)
(* The estimator of device.js with its window about to fill up: the state  *)
(* after WindowLens polls, SampleStep apart, in each of which the heater   *)
(* had used 0.1 kWh and the tank was 0.1 degree warmer than before.  No    *)
(* such sample is counted into temp_diffs, so every call returned early    *)
(* and the rest of the estimator is as onOAuth2Init left it.               *)
(***************************************************************************)
WindowLens == {LOGITEMS - 1, LOGITEMS}
HeatingEnd == 5990       \* the tank's temperature at the last of the polls

HeatingWindow(len) ==
  [i \in 1..len |->
     [powDiff |-> 1, tempDiff |-> 1, timeDiff |-> SampleStep, storeDiff |-> 0,
      outerTempDiff |-> ToFixed1(HeatingEnd - (i - 1) * 10 - DefaultOutsideTemp)]]

WindowStart ==
  /\ leakBudget = MaxLeakCalls
  /\ numericOnly = TRUE
  /\ lastCall = NoCall
  /\ deviceType = DEVICE_TYPE_CONNECTED_200
  /\ leakageConstant = Num(DefaultLeakageConstant)
  /\ accumulatedLeakage = Num(0)
  /\ currentLeakage = Num(0)
  /\ prevAccumTime = 0
  /\ outsideTemp = DefaultOutsideTemp
  /\ tankVolume = DefaultTankVolume
  /\ prevRelationTime = Undefined
  /\ prevRelationUse = Undefined
  /\ prevRelationLeak = Num(0)
  /\ store = NoStore
  /\ \E len \in WindowLens :
       /\ pastLeakage = HeatingWindow(len)
       /\ prevTime = len * SampleStep
       /\ now = len * SampleStep
  /\ prevPower = Val(100000) /\ prevTemp = Val(HeatingEnd) /\ prevStored = Stored

WindowInit ==
  /\ LifeInit /\ variant = C200 /\ dev517 = 3 /\ WindowStart /\ NoPolls
  /\ ModeSettled /\ ConfigSettled

WindowSpec == WindowInit /\ [][LeakNext]_vars

(***************************************************************************)
(* The estimator of device.js fed by a tank that cools with the heater     *)
(* off: from poll to poll the tank loses StreamDrop or nothing, and a flow *)
(* sets the ambient temperature.  The start is the state after SeedLen     *)
(* polls of a steady stream: the tank StreamDrop colder each time and      *)
(* StreamOuter above the ambient temperature.                              *)
(***************************************************************************)
MaxStream == 3          \* polls of the stream in one behaviour

StreamDrop == 30        \* 0.3 degree
StreamOuter == 1000     \* 10 degrees
StreamStart == 6000     \* the tank's temperature at the last poll of the start
StreamConstants == {DefaultLeakageConstant, 100000}
StreamVolumes == {DefaultTankVolume, CONNECTED_300_PROPERTIES.size}

SteadySample ==
  [powDiff |-> 0, tempDiff |-> ToFixed1(-StreamDrop), timeDiff |-> SampleStep,
   storeDiff |-> 0, outerTempDiff |-> ToFixed1(StreamOuter)]

StreamStartState ==
  /\ leakBudget = MaxStream
  /\ numericOnly = TRUE
  /\ lastCall = NoCall
  /\ deviceType = DEVICE_TYPE_CONNECTED_200
  /\ leakageConstant \in {Num(k) : k \in StreamConstants}
  /\ tankVolume \in StreamVolumes
  /\ accumulatedLeakage = Num(0)
  /\ currentLeakage = Num(0)
  /\ prevAccumTime = 0
  /\ outsideTemp = StreamStart - StreamOuter
  /\ prevRelationTime = Undefined
  /\ prevRelationUse = Undefined
  /\ prevRelationLeak = Num(0)
  /\ store = NoStore
  /\ pastLeakage = [i \in 1..SeedLen |-> SteadySample]
  /\ prevPower = Val(100000) /\ prevTemp = Val(StreamStart) /\ prevStored = Stored
  /\ prevTime = SeedLen * SampleStep
  /\ now = SeedLen * SampleStep

StreamInit ==
  /\ LifeInit /\ variant = C200 /\ dev517 = 3 /\ StreamStartState /\ NoPolls
  /\ ModeSettled /\ ConfigSettled

\* setAmbientTemp up to its first await: this.outsideTemp is set and the write
\* of the ambient temperature is issued
setAmbientTemp(c) ==
  /\ FreeCall(c)
  /\ \E ambient_temp \in {prevTemp.v - StreamDrop - StreamOuter, DefaultOutsideTemp} :
       /\ ambient_temp # outsideTemp
       /\ outsideTemp' = ambient_temp
  /\ calls' = [calls EXCEPT ![c] = NewCall(AMBIENT, "user", FALSE, 0)]
  /\ UNCHANGED <<constVars, available, heaterVars, timerVars, initVars, listeners,
                 deleted, ticks, budgetVars, staleTimerFired, deleteVars>>
  /\ UNCHANGED <<deviceType, leakageConstant, accumulatedLeakage, currentLeakage,
                 prevAccumTime, tankVolume, prevPower, prevTemp, prevStored, prevTime,
                 pastLeakage, prevRelationTime, prevRelationUse, prevRelationLeak,
                 store, now, leakBudget, numericOnly, lastCall, pollVars, modeVars, configVars>>

\* updateState hands the readings of the next poll to logLeakage
StreamPoll ==
  /\ leakBudget > 0
  /\ leakBudget' = leakBudget - 1
  /\ \E lost \in {0, StreamDrop} :
       /\ now' = now + SampleStep
       /\ C200_logLeakage(prevPower, Val(prevTemp.v - lost), Stored, now')
  /\ UNCHANGED <<lifeVars, deviceType, numericOnly, pollVars, modeVars, configVars>>

StreamNext ==
  \/ StreamPoll
  \/ \E c \in CallIds : setAmbientTemp(c)
  \/ \E c \in CallIds : WriteOk(c)

StreamSpec == StreamInit /\ [][StreamNext]_vars

(***************************************************************************)
(* The estimator of device.js choosing the temp diffs it trusts: the       *)
(* window holds samples of a tank that lost BinDrop from poll to poll with *)
(* the heater off, samples that lost one tenth more or less, samples with  *)
(* no loss, and samples that lost BinDrop while the heater was heating.    *)
(* A start is the window after polls in each of which logLeakage found no  *)
(* temp diff to trust and returned early, so the rest of the estimator is  *)
(* as onOAuth2Init left it.                                                *)
(***************************************************************************)
MaxBinCalls == 2        \* polls of the bins in one behaviour

BinDrop == 30           \* 0.3 degree: the temp diff of the most frequent samples
BinEnd == 6000          \* the tank's temperature at the last poll of the start
BinUse == 100           \* the energy a heating sample used, in 1/100 kWh

BinModal == {8, 9, 11}  \* samples that lost BinDrop
BinBelow == {0, 1, 4, 5}    \* samples that lost a tenth more
BinAbove == {0, 2}      \* samples that lost a tenth less
BinFar == {0, 3, 4}     \* samples with no loss
BinHeated == {0, 1}     \* samples that lost BinDrop while the heater was on

BinSeeds ==
  [modal : BinModal, below : BinBelow, above : BinAbove, far : BinFar,
   heated : BinHeated]

\* powDiff and tempDiff of the samples of a start, the newest first: the oldest
\* are the samples with no loss, the newest the ones that lost BinDrop
BinDiffs(seed) ==
  [i \in 1..seed.modal |-> <<0, ToFixed1(-BinDrop)>>]
    \o [i \in 1..seed.heated |-> <<ToFixed1(BinUse), ToFixed1(-BinDrop)>>]
    \o [i \in 1..seed.below |-> <<0, ToFixed1(-BinDrop) - 1>>]
    \o [i \in 1..seed.above |-> <<0, ToFixed1(-BinDrop) + 1>>]
    \o [i \in 1..seed.far |-> <<0, 0>>]

RECURSIVE TempAt(_, _)
\* the temperature read by the poll that made entry idx, in 1/100 degree
TempAt(diffs, idx) ==
  IF idx = 1 THEN BinEnd ELSE TempAt(diffs, idx - 1) - diffs[idx - 1][2] * 10

BinWindow(seed) ==
  LET diffs == BinDiffs(seed)
  IN [i \in 1..Len(diffs) |->
        [powDiff |-> diffs[i][1], tempDiff |-> diffs[i][2], timeDiff |-> SampleStep,
         storeDiff |-> 0,
         outerTempDiff |-> ToFixed1(TempAt(diffs, i) - DefaultOutsideTemp)]]

\* the window as the poll that made entry idx saw it
WindowAt(w, idx) == SubSeq(w, idx, Len(w))

\* every poll of the start returned early
AllReturnedEarly(w) == \A idx \in DOMAIN w : SelectKeys(WindowAt(w, idx)) = NoKeys

BinStart ==
  /\ leakBudget = MaxBinCalls
  /\ numericOnly = TRUE
  /\ lastCall = NoCall
  /\ deviceType = DEVICE_TYPE_CONNECTED_200
  /\ leakageConstant = Num(DefaultLeakageConstant)
  /\ tankVolume = DefaultTankVolume
  /\ accumulatedLeakage = Num(0)
  /\ currentLeakage = Num(0)
  /\ prevAccumTime = 0
  /\ outsideTemp = DefaultOutsideTemp
  /\ prevRelationTime = Undefined
  /\ prevRelationUse = Undefined
  /\ prevRelationLeak = Num(0)
  /\ store = NoStore
  /\ \E seed \in BinSeeds :
       /\ AllReturnedEarly(BinWindow(seed))
       /\ pastLeakage = BinWindow(seed)
       /\ prevTime = Len(BinWindow(seed)) * SampleStep
       /\ now = Len(BinWindow(seed)) * SampleStep
  /\ prevPower = Val(100000) /\ prevTemp = Val(BinEnd) /\ prevStored = Stored

BinInit ==
  /\ LifeInit /\ variant = C200 /\ dev517 = 3 /\ BinStart /\ NoPolls
  /\ ModeSettled /\ ConfigSettled

\* updateState hands the readings of the next poll to logLeakage: the tank
\* lost BinDrop, a tenth more, or nothing, and the heater was off or on
BinPoll ==
  /\ leakBudget > 0
  /\ leakBudget' = leakBudget - 1
  /\ \E lost \in {0, BinDrop, BinDrop + 10}, used \in {0, BinUse} :
       /\ now' = now + SampleStep
       /\ C200_logLeakage(Val(prevPower.v + used), Val(prevTemp.v - lost), Stored, now')
  /\ UNCHANGED <<lifeVars, deviceType, numericOnly, pollVars, modeVars, configVars>>

BinNext == BinPoll

BinSpec == BinInit /\ [][BinNext]_vars


(***************************************************************************)
(* Initialization of the current device class alone, with the scheduling   *)
(* the event loop gives: a timer that is set fires, an awaited network     *)
(* call or sleep completes.  The failures stay bounded by failBudget, so   *)
(* every requested id appears in some answer.                              *)
(***************************************************************************)
ConvergeInit == Init /\ variant = PART000

ConvergeNext ==
  \/ onOAuth2Init
  \/ InitTimerFire
  \/ InitFetchThrows
  \/ InitFetchReturns
  \/ InitToSettingsReturns
  \/ InitToSettingsThrows
  \/ InitFullListReturns
  \/ PollFetchThrows(0)
  \/ PollSleepDone(0)
  \/ PollFetchReturns(0)
  \/ \E c \in CallIds : WriteThrows(c)
  \/ \E c \in CallIds : WriteSleepDone(c)
  \/ \E c \in CallIds : WriteOk(c)
  \/ onOAuth2Deleted

FairSpec ==
  /\ ConvergeInit
  /\ [][ConvergeNext]_vars
  /\ WF_vars(onOAuth2Init)
  /\ WF_vars(InitTimerFire)
  /\ WF_vars(InitFetchReturns)
  /\ WF_vars(InitToSettingsReturns)
  /\ WF_vars(InitFullListReturns)
  /\ WF_vars(PollSleepDone(0))
  /\ WF_vars(PollFetchReturns(0))

(***************************************************************************)
(* The same initialization with one more failure to spend, enough for two  *)
(* rounds that end with ids unresolved after a diagnostic fetch that       *)
(* failed.                                                                 *)
(***************************************************************************)
MaxInitFail == 3       \* failures the network injects during initialization

RetryInit ==
  LifeStart(MaxInitFail) /\ LeakIdle /\ ModeSettled /\ ConfigSettled /\ variant = PART000

RetrySpec == RetryInit /\ [][ConvergeNext]_vars

(***************************************************************************)
(* The heater mode over the initializations of one device: the app is      *)
(* restarted with the device's store and settings retained, and the user   *)
(* changes the mode or a price setting.                                    *)
(***************************************************************************)
\* The app restarts: a new device object is constructed, what the old one had
\* in flight is lost; the store, the settings and the device itself stay.
Restart ==
  /\ initPc # "start"
  /\ ~deleted
  /\ inits < MaxInits
  /\ available' = TRUE
  /\ is_on' = TRUE /\ max_power' = 3
  /\ intervalID' = FALSE /\ initializeID' = FALSE
  /\ intervalTimer' = "off" /\ initTimer' = "off"
  /\ fullListReported' = FALSE
  /\ brokenSpotPrice' = FALSE
  /\ listeners' = FALSE
  /\ statesLeft' = {}
  /\ initPc' = "start"
  /\ fetched' = {}
  /\ resolved' = [id \in AllIds |-> 0]
  /\ ticks' = [t \in TickIds |-> IdleTick]
  /\ calls' = [c \in CallIds |-> IdleCall]
  /\ events' = 0
  /\ ackRun' = NoRun
  /\ userLevel' = 0
  /\ partialRounds' = 0
  /\ keyChange' = NoChange
  /\ UNCHANGED <<variant, deleted, dev517, budgetVars, staleTimerFired, deleteVars,
                 readingVars, heater_mode, isFirstTime, controling_device, inits,
                 modeWriteBy,
                 configVars>>

ModeInit == LifeInit /\ LeakIdle /\ ModeFresh /\ ConfigSettled

ModeNext ==
  \/ onOAuth2Init
  \/ ModeWriteThrows
  \/ ModeWriteSleepDone
  \/ ModeWriteNotOk
  \/ ModeWriteOk
  \/ InitTimerFire
  \/ InitFetchReturns
  \/ InitToSettingsReturns
  \/ InitFullListReturns
  \/ C200_InitFetchReturns
  \/ C200_InitSetSettingsReturns
  \/ \E t \in TickIds : PollFetchReturns(t)
  \/ \E c \in CallIds : onSettings(c)
  \/ \E c \in CallIds : WriteOk(c)
  \/ Restart

ModeSpec == ModeInit /\ [][ModeNext]_vars

(***************************************************************************)
(* The hardware as initialization finds it: the store holds no device type *)
(* yet, the tank is of either model or of another size, and the device has *)
(* one of the max power capabilities or none.                              *)
(***************************************************************************)
ConfigInit ==
  /\ LifeInit
  /\ EstimatorIdle
  /\ ModeSettled
  /\ deviceType = DEVICE_TYPE_UNKNOWN
  /\ tankSize \in TankSizes
  /\ maxPowerCapability \in Capabilities
  /\ HeaterNomPower = 0 /\ HeaterNomPower2 = 0

ConfigNext ==
  \/ onOAuth2Init
  \/ InitTimerFire
  \/ InitFetchReturns
  \/ InitToSettingsReturns
  \/ InitFullListReturns
  \/ C200_InitFetchReturns
  \/ C200_InitSetSettingsReturns
  \/ IntervalFire
  \/ \E t \in TickIds : PollFetchReturns(t)
  \/ \E c \in CallIds : UserCommand(c)
  \/ \E c \in CallIds : onSettings(c)
  \/ \E c \in CallIds : WriteOk(c)

ConfigSpec == ConfigInit /\ [][ConfigNext]_vars

(***************************************************************************)
(* The retry loops with the scheduling the event loop gives: a sleep that  *)
(* is awaited ends, and a call to the cloud that is awaited is answered.   *)
(* The failures stay bounded by failBudget, so every operation succeeds    *)
(* in the end.                                                             *)
(***************************************************************************)
LoopNext ==
  \/ onOAuth2Init
  \/ InitTimerFire
  \/ InitFetchReturns
  \/ InitToSettingsReturns
  \/ InitFullListReturns
  \/ C200_InitFetchReturns
  \/ C200_InitSetSettingsReturns
  \/ IntervalFire
  \/ \E t \in TickIds : PollFetchThrows(t)
  \/ \E t \in TickIds : PollSleepDone(t)
  \/ \E t \in TickIds : PollFetchReturns(t)
  \/ \E c \in CallIds : UserCommand(c)
  \/ \E c \in CallIds : WriteThrows(c)
  \/ \E c \in CallIds : WriteSleepDone(c)
  \/ \E c \in CallIds : WriteNotOk(c)
  \/ \E c \in CallIds : WriteOk(c)

LoopSpec ==
  /\ Init
  /\ [][LoopNext]_vars
  /\ \A c \in CallIds : WF_vars(WriteSleepDone(c)) /\ WF_vars(WriteOk(c))
  /\ \A t \in TickIds : WF_vars(PollSleepDone(t)) /\ WF_vars(PollFetchReturns(t))

(***************************************************************************)
(* Properties of the retry loop.                                           *)
(***************************************************************************)
\* a retry-wrapped write returns
WriteReturns(c) == calls[c].pc = "write" /\ calls'[c].pc = "idle"
\* a retry-wrapped read returns
ReadReturns(t) == ticks[t].pc = "fetch" /\ ticks'[t].pc = "idle"

\* C1: a retry-wrapped operation that failed N times, by a throw or by a
\* not-ok answer, and then succeeds has set the device unavailable exactly N
\* times, and the device is available when it returns.
C1_RetryDurability ==
  [][/\ \A c \in CallIds :
          WriteReturns(c) => calls[c].nUnavail = calls[c].nFail /\ available'
     /\ \A t \in TickIds :
          ReadReturns(t) => ticks[t].nUnavail = ticks[t].nFail /\ available']_vars

\* C2: a write answered with ok = false is handled like a write that throws:
\* the device is set unavailable and the loop sleeps before the next attempt.
C2_NotOkLikeThrow ==
  [][\A c \in CallIds :
       (calls[c].pc = "write" /\ calls'[c].nFail > calls[c].nFail)
         => (calls'[c].pc = "sleep" /\ ~available')]_vars

(***************************************************************************)
(* Properties of the max-power trigger.                                    *)
(***************************************************************************)
\* C3: acknowledged setHeaterState calls of one level in a row emit one event
\* in total when the cached level differed from theirs before the first, and
\* none when it did not: a call whose level is the cached one emits nothing.
C3_EdgeTriggered ==
  ackRun.n > 0 => ackRun.emitted = (IF ackRun.fromOther THEN 1 ELSE 0)

\* two calls of one level were acknowledged in a row, the first changed the level
C3_Witness == ackRun.n = 2 /\ ackRun.fromOther /\ ackRun.emitted = 1

(***************************************************************************)
(* Properties of the initialization.                                       *)
(***************************************************************************)
Requested == InitialStatesLeft(variant, brokenSpotPrice)
ResolvedOnce ==
  \A id \in AllIds : resolved[id] = (IF id \in Requested THEN 1 ELSE 0)

\* C4: with every requested id in some answer, the initialization of a device
\* that stays reaches the complete state; on reaching it the unresolved set
\* is empty, the periodic timer is started and the device is available; every
\* requested id was stored and removed from the unresolved set exactly once,
\* and no id is ever stored twice.
C4_Convergence ==
  /\ <>(deleted \/ initPc = "complete")
  /\ [](\A id \in AllIds : resolved[id] <= 1)
  /\ [](initPc = "complete" => statesLeft = {} /\ ResolvedOnce)
  /\ [][(initPc # "complete" /\ initPc' = "complete")
          => (available' /\ intervalTimer' = "armed" /\ intervalID')]_vars

\* the complete state was reached after a round that left ids unresolved
C4_Witness ==
  /\ initPc = "complete" /\ ~deleted
  /\ partialRounds > 0
  /\ \E id \in AllIds : resolved[id] = 1

(***************************************************************************)
(* Properties of the deletion.                                             *)
(***************************************************************************)
\* C5: a timer that was pending when the device was deleted never fires.
C5_NoTimerAfterDelete == ~staleTimerFired

\* C6: once the device (of the current class) is deleted, the completion of
\* a call that was awaited changes no device state, issues no write and sets
\* no timer.
C6_NoActionAfterDelete ==
  (deleted /\ variant = PART000)
    => ~mutatedAfterDelete /\ ~wroteAfterDelete /\ ~timerSetAfterDelete

(***************************************************************************)
(* Properties of the leakage estimator.                                    *)
(***************************************************************************)
\* a logLeakage call has just been made
Called == leakBudget' < leakBudget
\* the readings of the last call were not all valid numbers
NotNumbers(call) ==
  \E x \in {call.totalUsage, call.temperature, call.inTank} : x.t # "number"

\* C7: a logLeakage call given a reading that is not a valid number throws,
\* leaves every field of the estimator as it was, publishes nothing and
\* stores nothing.
C7_Rejection ==
  [][(Called /\ NotNumbers(lastCall'))
       => /\ lastCall'.threw
          /\ UNCHANGED estimatorVars
          /\ ~lastCall'.published /\ ~lastCall'.stored /\ store' = store]_vars

\* C8: accumulatedLeakage never decreases over a logLeakage call given
\* numbers.
C8_Monotone ==
  [][(Called /\ numericOnly') => XGeq(accumulatedLeakage', accumulatedLeakage)]_vars

\* C9: leakageConstant is above zero in every state, whatever numbers the
\* logLeakage calls were given.
C9_PositiveConstant == numericOnly => XPositive(leakageConstant)

\* C10: the leak relation that logLeakage publishes is never above 100,
\* whatever numbers the calls were given.
C10_Saturation == numericOnly => ~Above100(lastCall.leakRelation)

(***************************************************************************)
(* Properties of the sample window.                                        *)
(***************************************************************************)
\* a logLeakage call that logs a sample: its readings pass the check and a
\* previous reading exists
Sampled ==
  /\ Called
  /\ ~lastCall'.threw
  /\ ~(LooseUndefined(prevPower) \/ LooseUndefined(prevTemp) \/ LooseUndefined(prevStored))

\* C11: pastLeakage never holds more than LOGITEMS samples; a call that logs a
\* sample puts it at index 0, every sample that was in the window moves up by
\* one position in its order, and a full window loses its oldest sample.
C11_Window ==
  /\ [](Len(pastLeakage) <= LOGITEMS)
  /\ [][Sampled =>
          /\ Len(pastLeakage') =
               (IF Len(pastLeakage) < LOGITEMS THEN Len(pastLeakage) + 1 ELSE LOGITEMS)
          /\ pastLeakage'[1].timeDiff = now' - prevTime
          /\ pastLeakage'[1].tempDiff =
               ToFixed1(ToNumber(lastCall'.temperature).v - ToNumber(prevTemp).v)
          /\ pastLeakage'[1].powDiff =
               ToFixed1(ToNumber(lastCall'.totalUsage).v - ToNumber(prevPower).v)
          /\ \A i \in 2..Len(pastLeakage') : pastLeakage'[i] = pastLeakage[i - 1]]_vars

\* a full window has taken two more samples
C11_Witness ==
  /\ Len(pastLeakage) = LOGITEMS
  /\ leakBudget = 0
  /\ pastLeakage[1].powDiff # 1 /\ pastLeakage[2].powDiff # 1
  /\ pastLeakage[LOGITEMS].powDiff = 1

(***************************************************************************)
(* Properties of the estimate.                                             *)
(***************************************************************************)
\* the window holds samples of the steady stream only, enough of them for the
\* estimator to use
Steady(w) == Len(w) >= MinEntries /\ \A i \in DOMAIN w : w[i] = SteadySample

\* 4.187 * tankVolume * 0.3 * 1e6 / (10 * 300000), in mW/K
Implied(volume) ==
  (WaterHeat * volume * (StreamDrop \div 10) * 50) \div (3 * (StreamOuter \div 10) * SampleStep)

StrictlyBetween(x, a, b) == (a < x /\ x < b) \/ (b < x /\ x < a)

\* C12: a logLeakage call that leaves a window of steady samples only (no
\* energy used, 0.3 degree lost in 5 minutes, 10 degrees above the ambient
\* temperature, at least 10 of them) moves a leakageConstant that is not at the
\* implied value strictly between its previous value and the implied value,
\* so that its distance to the implied value shrinks with every such call.
C12_Convergence ==
  [][(Called /\ Steady(pastLeakage') /\ leakageConstant.v # Implied(tankVolume))
       => /\ leakageConstant'.k = "num"
          /\ StrictlyBetween(leakageConstant'.v, leakageConstant.v, Implied(tankVolume))
          /\ Abs(leakageConstant'.v - Implied(tankVolume))
               < Abs(leakageConstant.v - Implied(tankVolume))]_vars

\* the second update in a row from a window of steady samples
C12_Witness ==
  /\ Steady(pastLeakage) /\ Len(pastLeakage) = MinEntries + 1
  /\ lastCall.updated
  /\ leakageConstant.v \notin StreamConstants

(***************************************************************************)
(* Properties of the poll.                                                 *)
(***************************************************************************)
\* requested_power as the device holds it is what the cached state says
Matches == is_on = (dev517 # 0) /\ (dev517 # 0 => max_power = dev517)

\* C13: an updateState run that returns while requested_power matches the
\* cached on/off flag and level issues no write to the device and emits no
\* event.
C13_NoOpWhenMatching ==
  [][\A t \in TickIds :
       (ReadReturns(t) /\ Matches) => (calls' = calls /\ events' = events)]_vars

\* the writes in flight (awaited or asleep between two attempts) that a poll
\* started
PollWrites == {c \in CallIds : calls[c].pc # "idle" /\ calls[c].origin = "poll"}

\* C14: at most one write started by a poll is in flight at any time: the
\* write of one updateState run, retries included, is over before the next run
\* issues its own.
C14_OnePollWrite == Cardinality(PollWrites) <= 1

\* C15: an updateState run that returns leaves the published value of every
\* point that the answer lacks, or whose entry has no value, as it was, and
\* publishes the answer's value of every point that is there.
C15_PublishFrame ==
  [][\A t \in TickIds :
       ReadReturns(t) =>
         \A p \in PolledIds :
           published'[p] = (IF Present(answer'[p]) THEN answer'[p] ELSE published[p])]_vars

\* after a full answer, a later answer lacked a point and brought another value
\* of a second point
C15_Witness ==
  /\ leakBudget = MaxLeakCalls - 2
  /\ \E p, q \in PolledIds :
       /\ ~Present(answer[p]) /\ published[p] = SampleA[p]
       /\ Present(answer[q]) /\ published[q] = SampleB[q] /\ SampleB[q] # SampleA[q]

\* C16: an updateState run that got an answer - with or without all
\* measurements, whether logLeakage takes the readings, is not called or
\* throws - ends with the device available.
C16_AvailableAfterTick ==
  [][\A t \in TickIds : ReadReturns(t) => available']_vars

\* the run that initialization awaits got an answer that lacks a point and
\* holds a temperature that is no number: logLeakage threw, the run returned
C16_Witness ==
  /\ initPc = "complete" /\ leakBudget = MaxLeakCalls - 1
  /\ available /\ lastCall.threw
  /\ answer[528] = Text /\ \E p \in PolledIds : ~Present(answer[p])

(***************************************************************************)
(* Properties of the store.                                                *)
(***************************************************************************)
\* C17: two consecutive writes of the leakage keys to the store by logLeakage
\* are more than 24 hours of sample time apart.
C17_OncePerDay ==
  [][(store'.writes > store.writes /\ store.prevAccumTime.t = "number")
       => store'.prevAccumTime.v - store.prevAccumTime.v > DayMinutes]_vars

(***************************************************************************)
(* Properties of the diagnostic fetch.                                     *)
(***************************************************************************)
\* C18: the unfiltered fetch of all points is issued at most once during the
\* initialization, in the first round that ends with ids unresolved, and once
\* it has answered or thrown the retry of the unresolved ids is scheduled.
C18_OneFullList ==
  /\ [][(initPc # "fullList" /\ initPc' = "fullList") => partialRounds = 0]_vars
  /\ [][(initPc = "fullList" /\ initPc' # "fullList")
          => (initPc' = "waitTimer" /\ initTimer' = "armed" /\ initializeID')]_vars

(***************************************************************************)
(* Properties of the heater mode and of the price settings.                *)
(***************************************************************************)
\* onOAuth2Init issues its write of { 500: '8' }
ModeWriteIssued == initPc = "start" /\ initPc' = "modeWrite"

\* part_000 alone: once isFirstTime is in the store no initialization writes
\* id 500
FlagStopsModeWrite ==
  [][(variant = PART000 /\ isFirstTime = "false") => ~ModeWriteIssued]_vars

\* what toSettings and setSettings store while brokenSpotPrice is set is
\* never '6': a write of onSettings apart
ToSettingsNeverStores6 ==
  [][(brokenSpotPrice /\ brokenSpotPrice' /\ controling_device' # controling_device
        /\ \A c \in CallIds : ~WriteReturns(c))
       => controling_device' # "6"]_vars

\* C19: over the initializations of one device whose store is retained, the
\* write of heater mode '8' (id 500) is issued by the first initialization
\* only, and only when the mode it read is not '8'; no later initialization
\* writes id 500.
C19_ModeWriteOnce ==
  /\ [](modeWriteBy \subseteq {1})
  /\ [][ModeWriteIssued => heater_mode # "8"]_vars

\* C20: while brokenSpotPrice is set, initialization requests none of the ids
\* 544..548, onSettings writes none of them, and no controling_device '6' is
\* stored in the settings.
C20_SpotDisabled ==
  /\ [](brokenSpotPrice => statesLeft \cap SpotIds = {})
  /\ [][(brokenSpotPrice /\ keyChange' # keyChange) => keyChange'.id \notin SpotIds]_vars
  /\ [][(brokenSpotPrice /\ brokenSpotPrice' /\ controling_device' # controling_device)
          => controling_device' # "6"]_vars

(***************************************************************************)
(* Properties of the hardware check.                                       *)
(***************************************************************************)
\* the tank size is of no known model, or the max power capability is missing
ConfigError ==
  \/ tankSize \notin {CONNECTED_200_PROPERTIES.size, CONNECTED_300_PROPERTIES.size}
  \/ maxPowerCapability = "none"

\* C21: once initialization has met a tank size of no known model or a missing
\* max power capability it has aborted, and from then on the device is never
\* available, the periodic poller is never started and no write is in flight.
C21_ConfigFatal ==
  (initPc # "start" /\ ConfigError)
    => /\ initPc = "failed"
       /\ ~available
       /\ ~intervalID /\ intervalTimer = "off"
       /\ \A c \in CallIds : calls[c].pc = "idle"

(***************************************************************************)
(* Properties of the rounds of the initialization.                         *)
(***************************************************************************)
\* toSettings has stored what the round fetched
RoundStored == initPc = "toSettings" /\ resolved' # resolved
\* the retry timer starts the next round
NextRound == initPc = "waitTimer" /\ initPc' = "fetch"

\* C22: a round that stored ids leaves as unresolved the ids it requested but
\* those it fetched and stored; every other step of the initialization, a
\* failing fetch and a failing toSettings included, leaves the unresolved set
\* as it is, so it never gains an id; the next round requests the unresolved
\* set; and the unresolved ids are the requested ones that were never stored.
C22_UnresolvedSet ==
  /\ [][initPc # "start" =>
         /\ statesLeft' \subseteq statesLeft
         /\ statesLeft' = (IF RoundStored THEN statesLeft \ fetched ELSE statesLeft)
         /\ NextRound => fetched' = {}]_vars
  /\ [](initPc = "toSettings" => fetched # {} /\ fetched \subseteq statesLeft)
  /\ [](initPc \notin {"start", "failed"}
          => statesLeft = {id \in Requested : resolved[id] = 0})

\* a third round is about to request what two rounds left: less than what was
\* requested first
C22_Witness ==
  /\ initPc = "fetch" /\ partialRounds = 2
  /\ statesLeft # {} /\ statesLeft # Requested

\* the periodic timer is started
PollerStarts == intervalTimer # "armed" /\ intervalTimer' = "armed"
\* a retry timer is set
RetrySet == initPc # "waitTimer" /\ initPc' = "waitTimer"

\* C23: the periodic timer is started only by the round that ends with no id
\* unresolved, and once it is started initialization is over, so it is
\* started once; until then the device turns available, the retry-wrapped
\* writes apart, only in that round; a retry timer is set only when none is pending, and a
\* pending retry timer and the periodic timer are never active together.
C23_Timers ==
  /\ [][PollerStarts
         => (initPc = "firstUpdate" /\ initPc' = "complete" /\ statesLeft = {})]_vars
  /\ [][initPc = "complete" => (initPc' = "complete" /\ ~PollerStarts)]_vars
  /\ [][(available' /\ ~available /\ initPc # "complete"
           /\ \A c \in CallIds : ~WriteReturns(c))
          => (initPc = "firstUpdate" /\ statesLeft = {})]_vars
  /\ [][RetrySet => (initTimer # "armed" /\ initTimer' = "armed")]_vars
  /\ [](~(initTimer = "armed" /\ intervalTimer = "armed"))

\* the periodic timer runs on an available device after two rounds that set
\* the retry timer
C23_Witness ==
  /\ initPc = "complete" /\ intervalTimer = "armed" /\ initTimer = "off"
  /\ available /\ partialRounds = 2 /\ ~deleted

(***************************************************************************)
(* Properties of the cached heater state.                                  *)
(***************************************************************************)
\* the acknowledgment of the setHeaterState call c
HeaterAck(c) == calls[c].kind = HEATER /\ WriteReturns(c)

\* C24: this.is_on and this.max_power change only in the step that
\* acknowledges a write of requested_power, and then to what that call was
\* given; while the write of a command, a user's or the poller's, is retried
\* they stay what they were before the command.
C24_ChangeOnAck ==
  [][(is_on' # is_on \/ max_power' # max_power)
       => \E c \in CallIds :
            HeaterAck(c) /\ is_on' = calls[c].turnOn /\ max_power' = calls[c].newPower]_vars

\* C25: the setHeaterState call of a poll that read a level of requested_power
\* other than the cached one emits one max-power event when its write is
\* acknowledged.
C25_EventOnObservedChange ==
  [][\A c \in CallIds :
       (HeaterAck(c) /\ calls[c].sawChange) => events' = events + 1]_vars

(***************************************************************************)
(* C26: the blend of an accepted update.                                   *)
(***************************************************************************)
\* the call of this step got past its early returns and found temp diffs to trust
Accepted == leakBudget' # leakBudget /\ lastCall'.updated

\* the samples whose values the loop adds up, and those of them that were
\* counted into temp_diffs
Summed(w, keys) ==
  {i \in DOMAIN w : Val(w[i].tempDiff) = keys.key0 \/ Val(w[i].tempDiff) = keys.key1}
Counted(w, keys) == Summed(w, keys) \cap Included(w)

RECURSIVE CountedSum(_, _, _)
CountedSum(w, keys, idx) ==
  IF idx > Len(w) THEN Num(0)
  ELSE IF idx \in Counted(w, keys)
       THEN XAdd(DropOf(w[idx]), CountedSum(w, keys, idx + 1))
       ELSE CountedSum(w, keys, idx + 1)

\* 4.187 * tankVolume * the mean over the counted samples, in mW/K
MeanOfCounted(w, keys, volume) ==
  XDiv(XMul(XDiv(CountedSum(w, keys, 1), Cardinality(Counted(w, keys))),
            (WaterHeat * volume) \div 1000), 1000)

\* C26: on an accepted update the samples added up are exactly the samples
\* counted into the trusted temp diffs, their number is the divisor, and the
\* new constant is 0.99 of the old one plus 0.01 of 4.187 * tankVolume * their mean
C26_MeanOfCounted ==
  [][Accepted =>
       LET w == pastLeakage'
           keys == SelectKeys(w)
       IN /\ Summed(w, keys) = Counted(w, keys)
          /\ Cardinality(Summed(w, keys)) = temp_drop_count(w, keys)
          /\ leakageConstant' = Smooth(leakageConstant,
                                       MeanOfCounted(w, keys, tankVolume))]_vars

\* side formulas: the divisor is the number of counted samples, and the blend is
\* the one of the source with whatever the loop added up
DivisorCountsCounted ==
  [][Accepted =>
       LET w == pastLeakage'
           keys == SelectKeys(w)
       IN /\ Cardinality(Counted(w, keys)) = temp_drop_count(w, keys)
          /\ leakageConstant' = Smooth(leakageConstant,
                                       new_leakageConstant(w, keys, tankVolume))]_vars
NoHeatedInBins ==
  [][Accepted /\ (\A i \in DOMAIN pastLeakage' : pastLeakage'[i].powDiff = 0) =>
       LET w == pastLeakage'
           keys == SelectKeys(w)
       IN /\ Summed(w, keys) = Counted(w, keys)
          /\ leakageConstant' = Smooth(leakageConstant,
                                       MeanOfCounted(w, keys, tankVolume))]_vars

(***************************************************************************)
(* C27: a second temp diff that is no neighbour of the most frequent one.  *)
(***************************************************************************)
\* logLeakage ran in this step and got to its choice of key0 and key1
Chose == leakBudget' # leakBudget /\ ~lastCall'.threw /\ Len(pastLeakage') > Len(pastLeakage)

Modal(w) == SortedKey(w, {})
Second(w) == SortedKey(w, {Modal(w)})

\* the second most frequent temp diff exists and is no neighbour of the most
\* frequent one, which has the entries the estimator asks for
FarSecond(w) ==
  /\ Cardinality(Keys(w)) > 1
  /\ temp_diffs(w, Modal(w)) >= MinEntries
  /\ Abs(Second(w) - Modal(w)) # 1

\* the constant was blended with the value implied by the samples of keys
UpdatedFrom(keys) ==
  /\ lastCall'.updated
  /\ leakageConstant' = Smooth(leakageConstant,
                               new_leakageConstant(pastLeakage', keys, tankVolume))

NotUpdated == ~lastCall'.updated /\ leakageConstant' = leakageConstant

\* C27: with a second temp diff that is no neighbour of key0, and key0 holding
\* ten entries or more, the update is made from key0 alone if key0 has more than
\* three times the entries of key1, and otherwise - with exactly three times as
\* many too - the constant is left as it is
C27_FarSecond ==
  [][Chose /\ FarSecond(pastLeakage') =>
       LET w == pastLeakage'
       IN IF temp_diffs(w, Modal(w)) > 3 * temp_diffs(w, Second(w))
          THEN UpdatedFrom(Only(Modal(w)))
          ELSE NotUpdated]_vars

\* side formula: the test of the source, which rejects below three times only
FarSecondAsCoded ==
  [][Chose /\ FarSecond(pastLeakage') =>
       LET w == pastLeakage'
       IN IF temp_diffs(w, Modal(w)) >= 3 * temp_diffs(w, Second(w))
          THEN UpdatedFrom(Only(Modal(w)))
          ELSE NotUpdated]_vars

(***************************************************************************)
(* C28: a second temp diff next to the most frequent one.                  *)
(***************************************************************************)
\* the second most frequent temp diff is a neighbour of the most frequent one,
\* which has the entries the estimator asks for
NearSecond(w) ==
  /\ Cardinality(Keys(w)) > 1
  /\ temp_diffs(w, Modal(w)) >= MinEntries
  /\ Abs(Second(w) - Modal(w)) = 1

\* C28: with a second temp diff next to key0, the update is made from key0 and
\* the neighbour at key0 - 0.1 if that one has more than twice the entries of
\* the neighbour at key0 + 0.1, from key0 and the neighbour at key0 + 0.1 if
\* that one has more than twice the entries of the other, and otherwise the
\* constant is left as it is; a side without entries counts as 0
C28_NearSecond ==
  [][Chose /\ NearSecond(pastLeakage') =>
       LET w == pastLeakage'
           key0 == Modal(w)
           counta == temp_diffs(w, key0 - 1)
           countb == temp_diffs(w, key0 + 1)
       IN IF counta > 2 * countb THEN UpdatedFrom(Both(key0, key0 - 1))
          ELSE IF countb > 2 * counta THEN UpdatedFrom(Both(key0, key0 + 1))
          ELSE NotUpdated]_vars

\* the last call merged key0 with the more frequent of two neighbours that both
\* have entries
C28_Witness ==
  /\ lastCall.updated
  /\ NearSecond(pastLeakage)
  /\ temp_diffs(pastLeakage, Modal(pastLeakage) - 1) > 2
  /\ temp_diffs(pastLeakage, Modal(pastLeakage) + 1) = 2
  /\ SelectKeys(pastLeakage) = Both(Modal(pastLeakage), Modal(pastLeakage) - 1)

\* other states of the case: both neighbours have entries and none dominates,
\* and one neighbour alone has entries
BothSidesRejected ==
  /\ leakBudget < MaxBinCalls /\ ~lastCall.updated
  /\ NearSecond(pastLeakage)
  /\ temp_diffs(pastLeakage, Modal(pastLeakage) - 1) = 4
  /\ temp_diffs(pastLeakage, Modal(pastLeakage) + 1) = 2
OneSideMerged ==
  /\ lastCall.updated
  /\ NearSecond(pastLeakage)
  /\ temp_diffs(pastLeakage, Modal(pastLeakage) - 1) = 1
  /\ temp_diffs(pastLeakage, Modal(pastLeakage) + 1) = 0

(***************************************************************************)
(* C29: the entries the most frequent temp diff must have.                 *)
(***************************************************************************)
\* a sample of the window qualifies: no energy used and no rise of temperature
Qualifies(e) == e.powDiff = 0 /\ e.tempDiff <= 0
Bins(w) == {w[i].tempDiff : i \in {j \in DOMAIN w : Qualifies(w[j])}}
BinCount(w, d) == Cardinality({i \in DOMAIN w : Qualifies(w[i]) /\ w[i].tempDiff = d})
\* no temp diff of the window has MinEntries qualifying samples
TooFew(w) == \A d \in Bins(w) : BinCount(w, d) < MinEntries

\* C29: a call leaves leakageConstant as it is when the most frequent temp diff
\* of the qualifying samples has fewer than 10 of them, and a call that gets to
\* its choice updates the constant from that temp diff when it has 10 or more
\* and is the only one
C29_MinEntries ==
  [][leakBudget' # leakBudget =>
       LET w == pastLeakage'
       IN /\ TooFew(w) => NotUpdated
          /\ (Chose /\ \E d \in Bins(w) : Bins(w) = {d} /\ BinCount(w, d) >= MinEntries)
               => UpdatedFrom(Only(CHOOSE d \in Bins(w) : TRUE))]_vars

\* the last call updated the constant from the one temp diff of the window, which
\* has just 10 qualifying samples beside a sample that does not qualify
C29_Witness ==
  /\ lastCall.updated
  /\ Cardinality(Bins(pastLeakage)) = 1
  /\ \A d \in Bins(pastLeakage) : BinCount(pastLeakage, d) = MinEntries
  /\ \E i \in DOMAIN pastLeakage : ~Qualifies(pastLeakage[i])

\* the other state of the case: a call that found nine qualifying samples in the
\* most frequent temp diff of a window of ten or more
TooFewKept ==
  /\ leakBudget < MaxBinCalls /\ ~lastCall.updated
  /\ TooFew(pastLeakage)
  /\ \E d \in Bins(pastLeakage) : BinCount(pastLeakage, d) = MinEntries - 1
  /\ Len(pastLeakage) >= MinEntries

(***************************************************************************)
(* C30: the answers that updateState hands to logLeakage.                  *)
(***************************************************************************)
\* updateState got its answer in this step and ran to its end
PollAnswered == \E t \in TickIds : ticks[t].pc = "fetch" /\ ticks'[t] = IdleTick

\* the answer holds EnergyTotal, measured_temperature and EnergyStored
HasAll(ans) == Present(ans[303]) /\ Present(ans[528]) /\ Present(ans[302])

\* logLeakage was called with the readings of the answer
CalledWith(ans) ==
  /\ lastCall'.totalUsage = ans[303]
  /\ lastCall'.temperature = ans[528]
  /\ lastCall'.inTank = ans[302]
  /\ lastCall'.threw \/ lastCall'.returnedEarly \/ lastCall'.published

\* nothing of the estimator changed and no call was recorded
NotCalled == lastCall' = lastCall /\ UNCHANGED <<estimatorVars, store>>

\* C30: a poll calls logLeakage if and only if its answer holds the points 303,
\* 528 and 302; with one of them absent the estimator is not called and its
\* state stays as it is
C30_CalledIffAll ==
  [][PollAnswered =>
       IF HasAll(answer') THEN CalledWith(answer') ELSE NotCalled]_vars

\* side formulas: the claim for the driver of part_000 alone, and the state of
\* the estimator alone for an answer that lacks a point
PART000_CalledIffAll ==
  [][PollAnswered /\ variant = PART000 =>
       IF HasAll(answer') THEN CalledWith(answer') ELSE NotCalled]_vars
StateKeptWhenLacking ==
  [][PollAnswered /\ ~HasAll(answer') => UNCHANGED <<estimatorVars, store>>]_vars

(***************************************************************************)
(* C31: the value written to 517 and the power the event carries.          *)
(***************************************************************************)
\* the device is of a model the driver has the element powers of: device.js
\* is the driver of the Connected 200, part_000 has a table of both models
KnownModel ==
  IF variant = C200 THEN tankSize = 187 ELSE tankSize \in {187, 283}

\* the powers of the two elements of the device's model
Element1 == IF tankSize = 187 THEN 700 ELSE 1250
Element2 == IF tankSize = 187 THEN 1300 ELSE 1750
ElementWatt(level) ==
  IF level = 1 THEN Element1 ELSE IF level = 2 THEN Element2 ELSE Element1 + Element2

\* C31: an acknowledged setHeaterState call of level 1, 2 or 3 has written 0 to
\* 517 if it turned the heater off and the level if not, and the event it
\* emits carries the power of element 1 for level 1, of element 2 for level 2
\* and of both for level 3
C31_ValueAndWatt ==
  [][\A c \in CallIds :
       (HeaterAck(c) /\ calls[c].newPower \in 1..3 /\ KnownModel) =>
         /\ dev517' = (IF calls[c].turnOn THEN calls[c].newPower ELSE 0)
         /\ events' # events => ackRun'.watt = ElementWatt(calls[c].newPower)]_vars

\* a Connected 300 was set to level 1 and then to level 3 with the heater on:
\* the second event carries the power of both elements
C31_Witness ==
  /\ variant = PART000 /\ tankSize = 283
  /\ events = 2
  /\ ackRun.level = 3 /\ ackRun.watt = 3000
  /\ dev517 = 3

\* side formulas: every call has a level of 1, 2 or 3, and a command that turns
\* the heater off was acknowledged
LevelInRange ==
  \A c \in CallIds : calls[c].kind = HEATER => calls[c].newPower \in 1..3
TurnedOff == ~is_on /\ dev517 = 0 /\ ackRun.n > 0
\* a tank of another size: the event carries the powers the device reports
OtherModelWatt ==
  [][\A c \in CallIds :
       (HeaterAck(c) /\ variant = PART000 /\ tankSize = OtherSize /\ events' # events) =>
         ackRun'.watt = newPowerWatt(variant, calls[c].newPower, OtherPower, OtherPower2)]_vars

(***************************************************************************)
(* C32: the retry loops end, and only with a success.                      *)
(***************************************************************************)
\* a failure of the operation: a throw or an answer that is not ok
WriteFails(c) == calls'[c].nFail > calls[c].nFail
ReadFails(t) == ticks'[t].nFail > ticks[t].nFail

TicksDone == \A t \in TickIds : ticks[t].pc = "idle"
\* no retry-wrapped write is in flight either
WritesDone == \A c \in CallIds : calls[c].pc = "idle"

\* the device and the cache hold the level of the user's command
LevelKept == dev517 = userLevel /\ max_power = userLevel /\ is_on

\* C33: after the acknowledgment of a user command that set level L with the
\* heater on, and with no change of 517 from elsewhere since, the device and
\* the cached state hold L whenever every updateState run has completed
C33_NoStaleOverwrite == (userLevel # 0 /\ TicksDone) => LevelKept

\* side formulas: the same with no write in flight either, and the levels
\* while no poll has been answered since the device was initialized
QuietLevelKept == (userLevel # 0 /\ TicksDone /\ WritesDone) => LevelKept
LevelKeptBeforePolls ==
  (userLevel # 0 /\ WritesDone /\ pollBudget = MaxPolls /\ initPc # "complete")
    => LevelKept

(***************************************************************************)
(* C34: availability while ids are unresolved.                             *)
(***************************************************************************)
\* a round of the initialization has ended with ids unresolved and the
\* completing round has not ended yet
BetweenRounds ==
  /\ variant = PART000
  /\ partialRounds > 0
  /\ statesLeft # {}
  /\ initPc \notin {"start", "failed", "complete"}

\* C34: from the first round that leaves ids unresolved to the round that
\* completes the initialization the device is not available
C34_UnavailableBetweenRounds == BetweenRounds => ~available

\* side formula: between the rounds only the return of a retry-wrapped write
\* turns the device available
RoundsKeepUnavailable ==
  [][(BetweenRounds /\ ~available /\ available') => \E c \in CallIds : WriteReturns(c)]_vars
====
